---- MODULE Spec2Model ----
(***************************************************************************)
(* Verification model of autocargo: the buck manifest loader and resolver  *)
(* (src/buck_processing), project selection (src/config.rs) and the        *)
(* dependency generation of one Cargo.toml section                         *)
(* (src/cargo_generator/generation/dependencies.rs).                       *)
(***************************************************************************)
EXTENDS Integers, Sequences, FiniteSets, TLC

VARIABLES
    \* ---- buck_processing: BuckManifestLoader / process_raw_manifests ----
    pc,            \* position of process_targets
    phase,         \* 1 = load of the requested TARGETS, 2 = load of the missing rules
    targets,       \* TARGETS directories handed to process_targets
    loaderRules,   \* BuckManifestLoader.rules
    artifacts,     \* per phase: output of "buck build manifest rules", rule -> artifact
    pending,       \* artifacts of the build not yet read and parsed (FuturesUnordered)
    collected,     \* manifests parsed so far inside try_collect
    loadResult,    \* value returned by BuckManifestLoader::load, per phase
    builders,      \* manifest_builders of process_raw_manifests
    missing,       \* missing_rules of compute_all_raw_manifests
    allRaw,        \* all_raw_manifests
    cratemaps,     \* all_thrift_cratemaps
    output,        \* ProcessOutput returned by process_targets
    calls,         \* log of the commands handed to the command runner
    runs,          \* log of the loader methods invoked, with their rule sets
    buck,          \* how the build oracle of this run answers
    \* ---- config.rs: AllProjects::select_based_on_paths_and_names ----
    projects,      \* AllProjects.projects: name -> ProjectConf
    selPaths,      \* the paths argument
    selNames,      \* the names argument
    selPc,         \* position in select_based_on_paths_and_names
    selected_by_path,
    selected_by_name,
    to_process,
    selected,      \* the returned SelectedProjects (sorted by name), or an error
    \* ---- dependencies.rs: DependenciesGenerator::generate ----
    cfg,           \* optional_deps, oss generation or not, the catalog, targets_to_projects
    edges,         \* per section: deps, named_deps and extra_buck_dependencies
    raw_overrides, \* per section: the dependencies_override of the rule's autocargo field
    overrides,     \* per section: dependencies_override, key -> CargoDependencyOverride
    section,       \* the section being generated
    gpc,           \* position in generate
    todo,          \* the edges compute has not looked at yet
    deps_set,      \* compute's deps_set
    computed,      \* per section: what compute returned
    result,        \* per section: the generated DepsSet, or the error
    \* ---- generation.rs: one output unit, from CargoGenerator::new to generate ----
    unit,          \* the dependencies and extra_buck_dependencies of the unit's rules
    upc,           \* position in the generation of the unit
    run,           \* 1 for a run of the program, 2 for the run that follows it
    previous,      \* what the run before generated
    \* ---- util/future_timeout.rs: future_soft_timeout around one external call ----
    now,           \* Instant::now(), in ticks since start
    soft_timeout,  \* the soft_timeout argument, in ticks
    call,          \* the wrapped future: whether it is ready, and its output
    wrapper,       \* future_soft_timeout: position, the fused timer, the output returned
    warnings,      \* the callbacks called so far, with the time of each call
    \* ---- bin/autocargo/generate_cargo_locks.rs: generate_cargo_locks ----
    cargo_locks,   \* the cargo_locks directories of the selected projects, in order
    lockgen,       \* try_for_each: position, directories started, the blocking tasks
    \* ---- cargo_generator/generation.rs: GenerationInput::new ----
    manifests,     \* the manifests of the rules that map into one Cargo.toml
    geninput,      \* what GenerationInput::new returned
    \* ---- config.rs: validate_projects ----
    configs,       \* the ProjectConf read from the project files, in order
    catalog        \* what validate_projects returned

loadVars == <<pc, phase, targets, loaderRules, artifacts, pending, collected, loadResult,
              builders, missing, allRaw, cratemaps, output, calls, runs, buck>>

selVars == <<projects, selPaths, selNames, selPc, selected_by_path, selected_by_name,
             to_process, selected>>

genVars == <<cfg, edges, raw_overrides, overrides, section, gpc, todo, deps_set, computed, result>>

unitVars == <<unit, upc, run, previous>>

timeVars == <<now, soft_timeout, call, wrapper, warnings>>

lockVars == <<cargo_locks, lockgen>>

inputVars == <<manifests, geninput>>

catalogVars == <<configs, catalog>>

vars == <<loadVars, selVars, genVars, unitVars, timeVars, lockVars, inputVars, catalogVars>>

\* What process_targets leaves alone, and what the selection leaves alone.
LoadFrame == UNCHANGED <<selVars, genVars, unitVars, timeVars, lockVars, inputVars, catalogVars,
                         buck>>

SelFrame == UNCHANGED <<loadVars, genVars, unitVars, timeVars, lockVars, inputVars, catalogVars>>

GenFrame == UNCHANGED <<loadVars, selVars, unitVars, timeVars, lockVars, inputVars, catalogVars>>

UnitFrame == UNCHANGED <<loadVars, selVars, timeVars, lockVars, inputVars, catalogVars>>

TimeFrame == UNCHANGED <<loadVars, selVars, genVars, unitVars, lockVars, inputVars, catalogVars>>

LockFrame == UNCHANGED <<loadVars, selVars, genVars, unitVars, timeVars, inputVars, catalogVars>>

InputFrame == UNCHANGED <<loadVars, selVars, genVars, unitVars, timeVars, lockVars,
                          catalogVars>>

CatalogFrame == UNCHANGED <<loadVars, selVars, genVars, unitVars, timeVars, lockVars,
                            inputVars>>

(***************************************************************************)
(* Rules and the repository the build oracle answers about.                *)
(***************************************************************************)
FbcodeBuckRule(p, n) == [path |-> p, name |-> n]

RUST_MANIFEST_SFX == "-rust-manifest"

\* impl From<&FbcodeBuckRule> for BuckManifestRule: the name gets the suffix.
BuckManifestRule(rule) == [path |-> rule.path, name |-> <<rule.name, RUST_MANIFEST_SFX>>]

\* impl TryFrom<BuckManifestRule> for FbcodeBuckRule: strips the suffix.
FbcodeRuleOfManifestRule(mrule) ==
    IF Len(mrule.name) = 2 /\ mrule.name[2] = RUST_MANIFEST_SFX
    THEN [path |-> mrule.path, name |-> mrule.name[1]]
    ELSE [path |-> "error", name |-> "error"]

THRIFT_COMPILER_RULE == FbcodeBuckRule("common/rust/shed/thrift_compiler", "lib")

CODEGEN_INCLUDER_PROC_MACRO_RULE ==
    FbcodeBuckRule("common/rust/shed/codegen_includer_proc_macro", "codegen_includer_proc_macro")

EmptyMap == [x \in {} |-> x]

ThirdPartyCrate(n) == [kind |-> "ThirdPartyCrate", name |-> n]
FbcodeCrate(r) == [kind |-> "FbcodeCrate", rule |-> r]

(***************************************************************************)
(* The repository the build oracle answers about: the rules that have a    *)
(* rust manifest, and each manifest's content (RawBuckManifest restricted  *)
(* to the fields the resolver reads; the dependencies are given in the     *)
(* form UnprocessedBuckDependency::try_from_rule leaves them in).          *)
(***************************************************************************)
RuleA == FbcodeBuckRule("da", "a")
RuleO == FbcodeBuckRule("da", "o")
RuleN == FbcodeBuckRule("da", "n")
RuleT == FbcodeBuckRule("dt", "t-rust")
RuleB == FbcodeBuckRule("db", "b")
RuleC == FbcodeBuckRule("dc", "c")
RuleD == FbcodeBuckRule("dd", "d")

RawBuckManifest(n, ty, d, nd, od, ts, td, tnd, tod, ex, th) ==
    [name |-> n, fbconfig_rule_type |-> ty, deps |-> d, named_deps |-> nd, os_deps |-> od,
     tests |-> ts, test_deps |-> td, test_named_deps |-> tnd, test_os_deps |-> tod,
     extra_buck_dependencies |-> ex, thrift |-> th]

\* Rules with a "-rust-manifest" rule in buck; RuleN is a non-rust rule.
RustRules == {RuleA, RuleO, RuleT, RuleB, RuleC, RuleD,
              THRIFT_COMPILER_RULE, CODEGEN_INCLUDER_PROC_MACRO_RULE}

RequestableDirs == {"da", "dt", "db"}

RepoManifest(rule) ==
    CASE rule = RuleA ->
           RawBuckManifest("a", "RustLibrary",
               {FbcodeCrate(RuleB), FbcodeCrate(RuleN), ThirdPartyCrate("serde")},
               {<<"bb", FbcodeCrate(RuleB)>>}, {}, {}, {}, {}, {}, {}, "None")
      [] rule = RuleO ->
           RawBuckManifest("o", "Other", {FbcodeCrate(RuleC)}, {}, {}, {}, {}, {}, {}, {}, "None")
      [] rule = RuleT ->
           RawBuckManifest("t-rust", "RustLibrary", {FbcodeCrate(RuleA)},
               {}, {}, {}, {}, {}, {}, {}, "Types")
      [] rule = RuleB ->
           RawBuckManifest("b", "RustLibrary", {FbcodeCrate(RuleC), FbcodeCrate(RuleO)}, {},
               {<<"Linux", FbcodeCrate(RuleA)>>}, {}, {ThirdPartyCrate("quickcheck")},
               {}, {}, {}, "None")
      [] rule = RuleC ->
           RawBuckManifest("c", "RustLibrary", {FbcodeCrate(RuleD)}, {}, {}, {}, {}, {}, {}, {}, "None")
      [] OTHER ->
           RawBuckManifest(rule.name, "RustLibrary", {}, {}, {}, {}, {}, {}, {}, {}, "None")

(***************************************************************************)
(* The build oracle.  A command ends in one of four ways; an honest "ok"   *)
(* answer lists the manifest rules of the queried TARGETS files, or one    *)
(* artifact per built rule.  The content of an artifact is the oracle's.   *)
(***************************************************************************)
CmdOutcomes == {"ok", "spawn_failed", "nonzero_exit", "malformed_output"}

ArtifactKinds == {"good", "garbage", "misnamed"}

\* "buck uquery" over TARGETS files: the manifest rules defined in them.
BuckQuery(dirs) == {BuckManifestRule(r) : r \in {x \in RustRules : x.path \in dirs}}

\* The rules extract_dependencies adds for a manifest with a thrift section.
PseudoDependencies == {THRIFT_COMPILER_RULE, CODEGEN_INCLUDER_PROC_MACRO_RULE}

\* The oracle is a command behind the command runner.  Its TARGETS files may
\* define no rust manifest for the rules of `absent`, and the output of its
\* build command lists the rules it was given, one of them less, or one more.
HonestBuck == [absent |-> {}, keys |-> "requested"]

BuckAnswers == [absent : SUBSET PseudoDependencies, keys : {"requested", "fewer", "more"}]

\* stdout of "buck uquery" as from_targets_paths parses it
QueryAnswer(dirs) == BuckQuery(dirs) \ {BuckManifestRule(r) : r \in buck.absent}

\* The key sets stdout of "buck build" may hold when build() parses it.
BuildKeys(rules) ==
    CASE buck.keys = "requested" -> {rules}
      [] buck.keys = "fewer" -> {rules \ {m} : m \in rules}
      [] OTHER -> {rules \cup {BuckManifestRule(r)} : r \in {RuleA, RuleT}}

\* The file buck wrote for a manifest rule.
Artifact(mrule, kind) ==
    LET raw == RepoManifest(FbcodeRuleOfManifestRule(mrule)) IN
    [parses |-> kind # "garbage",
     raw |-> IF kind = "misnamed" THEN [raw EXCEPT !.name = "someone-else"] ELSE raw]

(***************************************************************************)
(* BuckManifestLoader                                                      *)
(***************************************************************************)
Ok(v) == [status |-> "Ok", value |-> v]
Err == [status |-> "Err", value |-> EmptyMap]
NotRun == [status |-> "None", value |-> EmptyMap]

\* A loader that keeps every rule the query found.
KeepQueried(queried, input_rules) == queried

\* from_rust_buck_rules: loader.rules.retain(|rule| input_rules.contains(rule))
Retain(queried, input_rules) == queried \cap {BuckManifestRule(r) : r \in input_rules}

\* One future of load(): read and parse the artifact, recover the rule, compare names.
ParseArtifact(mrule, artifact) ==
    LET rule == FbcodeRuleOfManifestRule(mrule) IN
    IF ~artifact.parses THEN Err
    ELSE IF rule.name = "error" THEN Err
    ELSE IF rule.name # artifact.raw.name THEN Err
    ELSE Ok(<<rule, artifact.raw>>)

\* try_collect over the stream of futures: the first Err ends the collection.
TryCollectSkipErrors(acc, item) ==
    IF item.status = "Err" THEN acc
    ELSE Ok((item.value[1] :> item.value[2]) @@ acc.value)

\* A collection that keeps the last manifest only.
TryCollectLast(acc, item) ==
    IF item.status = "Err" THEN Err
    ELSE Ok(item.value[1] :> item.value[2])

TryCollect(acc, item) ==
    IF item.status = "Err" THEN Err
    ELSE Ok((item.value[1] :> item.value[2]) @@ acc.value)

\* A loader that ran one command for each rule instead of one for the batch.
CommandsPerRule(rules) == Cardinality(rules)

\* from_targets_paths, build() and the cratemap build() hand the whole batch to one
\* command, and run none for an empty batch.
CommandsPerBatch(rules) == IF rules = {} THEN 0 ELSE 1

(***************************************************************************)
(* process_raw_manifests and its helpers                                   *)
(***************************************************************************)
SupportedRuleTypes == {"RustBinary", "RustLibrary", "RustUnittest"}

SupportedPlatforms == {"Linux", "Macos", "Windows"}

\* BuckManifestBuilder::from_raw_manifest, for a manifest of a supported rule type:
\* os deps of an unsupported platform are left out.
BuckManifestBuilder(raw) ==
    [raw |-> raw,
     fbconfig_rule_type |-> raw.fbconfig_rule_type,
     deps |-> raw.deps,
     named_deps |-> raw.named_deps,
     os_deps |-> {e \in raw.os_deps : e[1] \in SupportedPlatforms},
     tests |-> raw.tests,
     test_deps |-> raw.test_deps,
     test_named_deps |-> raw.test_named_deps,
     test_os_deps |-> {e \in raw.test_os_deps : e[1] \in SupportedPlatforms},
     extra_buck_dependencies |-> raw.extra_buck_dependencies]

\* manifest_builders: the filter_map over the loaded raw manifests.
ManifestBuilders(raw_manifests) ==
    [r \in {x \in DOMAIN raw_manifests :
               raw_manifests[x].fbconfig_rule_type \in SupportedRuleTypes}
        |-> BuckManifestBuilder(raw_manifests[r])]

\* UnprocessedBuckDependency::fbcode_crate over a set of dependencies
FbcodeCrates(deps) == {d.rule : d \in {x \in deps : x.kind = "FbcodeCrate"}}

\* extract_dependencies for one builder
BuilderDependencies(b) ==
    FbcodeCrates(b.deps)
    \cup FbcodeCrates({e[2] : e \in b.named_deps})
    \cup FbcodeCrates({e[2] : e \in b.os_deps})
    \cup FbcodeCrates(b.tests)
    \cup FbcodeCrates(b.test_deps)
    \cup FbcodeCrates({e[2] : e \in b.test_named_deps})
    \cup FbcodeCrates({e[2] : e \in b.test_os_deps})
    \cup (IF b.raw.thrift # "None"
          THEN {THRIFT_COMPILER_RULE, CODEGEN_INCLUDER_PROC_MACRO_RULE} ELSE {})
    \cup FbcodeCrates({e.dep : e \in b.extra_buck_dependencies})

ExtractDependencies(bld) == UNION {BuilderDependencies(bld[r]) : r \in DOMAIN bld}

\* The rules some manifest of the repository reaches from the given ones, in any
\* number of steps: what a resolver that recursed into loaded manifests would load.
RECURSIVE ReachableRules(_, _)
ReachableRules(rules, n) ==
    IF n = 0 THEN rules
    ELSE LET next == rules \cup UNION {BuilderDependencies(BuckManifestBuilder(RepoManifest(r)))
                                        : r \in rules \cap RustRules}
         IN IF next = rules THEN rules ELSE ReachableRules(next, n - 1)

MissingRulesRecursive(bld) ==
    ReachableRules(ExtractDependencies(bld), Cardinality(RustRules)) \ DOMAIN bld

\* compute_all_raw_manifests: missing_rules = dependency_rules - loaded_rules
MissingRules(bld) == ExtractDependencies(bld) \ DOMAIN bld

\* compute_all_raw_manifests: the builders' manifests chained with the manifests of
\* the missing rules and collected into one map (a later entry replaces an earlier).
AllRawManifests(bld, of_missing) ==
    [r \in DOMAIN of_missing |-> <<r.path, of_missing[r]>>]
    @@ [r \in DOMAIN bld |-> <<r.path, bld[r].raw>>]

\* ThriftCratemapLoader::from_rules_and_raw
CratemapRules(bld) == {r \in DOMAIN bld : bld[r].raw.thrift = "Types"}

\* A resolution that also looks at the type of the rule found.
ProcessLibrariesOnly(dep, all) ==
    IF dep.kind = "ThirdPartyCrate" THEN {dep}
    ELSE IF dep.rule \in DOMAIN all /\ all[dep.rule][2].fbconfig_rule_type = "RustLibrary"
         THEN {[kind |-> "FbcodeCrate", path |-> all[dep.rule][1], raw |-> all[dep.rule][2]]}
         ELSE {}

\* UnprocessedBuckDependency::process: None is the empty set
Process(dep, all) ==
    IF dep.kind = "ThirdPartyCrate" THEN {dep}
    ELSE IF dep.rule \in DOMAIN all
         THEN {[kind |-> "FbcodeCrate", path |-> all[dep.rule][1], raw |-> all[dep.rule][2]]}
         ELSE {}

ProcessAll(deps, all) == UNION {Process(d, all) : d \in deps}

ProcessNamed(named, all) == UNION {{<<e[1], d>> : d \in Process(e[2], all)} : e \in named}

\* BuckManifestBuilder::build
BuildManifest(b, all, has_cratemap) ==
    [raw |-> b.raw,
     fbconfig_rule_type |-> b.fbconfig_rule_type,
     deps |-> ProcessAll(b.deps, all),
     named_deps |-> ProcessNamed(b.named_deps, all),
     os_deps |-> ProcessNamed(b.os_deps, all),
     tests |-> ProcessAll(b.tests, all),
     test_deps |-> ProcessAll(b.test_deps, all),
     test_named_deps |-> ProcessNamed(b.test_named_deps, all),
     test_os_deps |-> ProcessNamed(b.test_os_deps, all),
     thrift_config |-> has_cratemap]

\* build() panics when a cratemap is there and a pseudo-dependency is not.
BuildPanics(all, has_cratemap) ==
    has_cratemap /\ ~({THRIFT_COMPILER_RULE, CODEGEN_INCLUDER_PROC_MACRO_RULE} \subseteq DOMAIN all)

(***************************************************************************)
(* process_targets as a state machine                                      *)
(***************************************************************************)
LoadInit ==
    /\ pc = "query"
    /\ phase = 1
    /\ targets \in SUBSET RequestableDirs
    /\ loaderRules = {}
    /\ artifacts = [ph \in {1, 2} |-> EmptyMap]
    /\ pending = {}
    /\ collected = Ok(EmptyMap)
    /\ loadResult = [ph \in {1, 2} |-> NotRun]
    /\ builders = EmptyMap
    /\ missing = {}
    /\ allRaw = EmptyMap
    /\ cratemaps = EmptyMap
    /\ output = NotRun
    /\ calls = <<>>
    /\ runs = <<>>

LoadIdle ==
    /\ pc = "idle"
    /\ phase = 1
    /\ targets = {}
    /\ loaderRules = {}
    /\ artifacts = [ph \in {1, 2} |-> EmptyMap]
    /\ pending = {}
    /\ collected = Ok(EmptyMap)
    /\ loadResult = [ph \in {1, 2} |-> NotRun]
    /\ builders = EmptyMap
    /\ missing = {}
    /\ allRaw = EmptyMap
    /\ cratemaps = EmptyMap
    /\ output = NotRun
    /\ calls = <<>>
    /\ runs = <<>>
    /\ buck = HonestBuck

Call(cmd, out) == [cmd |-> cmd, phase |-> phase, outcome |-> out]

Run(method, rules) == [method |-> method, phase |-> phase, rules |-> rules]

\* The TARGETS files the loader is created for: the requested ones, then those of
\* the missing rules.
QueryDirs == IF phase = 1 THEN targets ELSE {r.path : r \in missing}

\* from_targets_paths (phase 1) or from_rust_buck_rules (phase 2)
Query ==
    /\ pc = "query"
    /\ runs' = Append(runs, IF phase = 1 THEN Run("from_targets_paths", {})
                            ELSE Run("from_rust_buck_rules", missing))
    /\ IF CommandsPerBatch(QueryDirs) = 0
       THEN /\ loaderRules' = {}
            /\ pc' = "build"
            /\ calls' = calls
            /\ UNCHANGED loadResult
       ELSE \E outs \in [1..CommandsPerBatch(QueryDirs) -> CmdOutcomes] :
              /\ calls' = calls \o [i \in 1..Len(outs) |-> Call("buck query manifests", outs[i])]
              /\ IF \A i \in 1..Len(outs) : outs[i] = "ok"
                 THEN /\ loaderRules' = (IF phase = 1 THEN QueryAnswer(QueryDirs)
                                         ELSE Retain(QueryAnswer(QueryDirs), missing))
                      /\ pc' = "build"
                      /\ UNCHANGED loadResult
                 ELSE /\ loaderRules' = {}
                      /\ pc' = "failed"
                      /\ loadResult' = [loadResult EXCEPT ![phase] = Err]
    /\ UNCHANGED <<phase, targets, artifacts, pending, collected, builders, missing,
                   allRaw, cratemaps, output>>
    /\ LoadFrame

\* load(): self.build()
Build ==
    /\ pc = "build"
    /\ runs' = Append(runs, Run("load", loaderRules))
    /\ collected' = Ok(EmptyMap)
    /\ IF CommandsPerBatch(loaderRules) = 0
       THEN /\ pc' = "parse"
            /\ pending' = {}
            /\ UNCHANGED <<calls, artifacts, loadResult>>
       ELSE \E outs \in [1..CommandsPerBatch(loaderRules) -> CmdOutcomes] :
              /\ calls' = calls \o [i \in 1..Len(outs) |-> Call("buck build manifest rules", outs[i])]
              /\ IF \A i \in 1..Len(outs) : outs[i] = "ok"
                 THEN \E keys \in BuildKeys(loaderRules) : \E kinds \in [keys -> ArtifactKinds] :
                        /\ artifacts' = [artifacts EXCEPT ![phase] =
                                            [m \in keys |-> Artifact(m, kinds[m])]]
                        /\ pending' = keys
                        /\ pc' = "parse"
                        /\ UNCHANGED loadResult
                 ELSE /\ pc' = "failed"
                      /\ pending' = {}
                      /\ loadResult' = [loadResult EXCEPT ![phase] = Err]
                      /\ UNCHANGED artifacts
    /\ UNCHANGED <<phase, targets, loaderRules, builders, missing, allRaw, cratemaps, output>>
    /\ LoadFrame

\* load(): one of the futures completes and try_collect takes its result
ParseOne ==
    /\ pc = "parse"
    /\ \E m \in pending :
         LET acc == TryCollect(collected, ParseArtifact(m, artifacts[phase][m])) IN
         IF acc.status = "Err"
         THEN /\ pc' = "failed"
              /\ pending' = {}
              /\ collected' = Err
              /\ loadResult' = [loadResult EXCEPT ![phase] = Err]
         ELSE /\ pc' = pc
              /\ pending' = pending \ {m}
              /\ collected' = acc
              /\ UNCHANGED loadResult
    /\ UNCHANGED <<phase, targets, loaderRules, artifacts, builders, missing, allRaw,
                   cratemaps, output, calls, runs>>
    /\ LoadFrame

\* load(): the stream is exhausted and try_collect returns the map
LoadDone ==
    /\ pc = "parse"
    /\ pending = {}
    /\ loadResult' = [loadResult EXCEPT ![phase] = collected]
    /\ pc' = IF phase = 1 THEN "resolve" ELSE "merge"
    /\ UNCHANGED <<phase, targets, loaderRules, artifacts, pending, collected, builders,
                   missing, allRaw, cratemaps, output, calls, runs>>
    /\ LoadFrame

\* process_raw_manifests up to the call of from_rust_buck_rules
Resolve ==
    /\ pc = "resolve"
    /\ builders' = ManifestBuilders(loadResult[1].value)
    /\ missing' = MissingRules(builders')
    /\ phase' = 2
    /\ pc' = "query"
    /\ UNCHANGED <<targets, loaderRules, artifacts, pending, collected, loadResult, allRaw,
                   cratemaps, output, calls, runs>>
    /\ LoadFrame

\* compute_all_raw_manifests: the final collect
Merge ==
    /\ pc = "merge"
    /\ allRaw' = AllRawManifests(builders, loadResult[2].value)
    /\ pc' = "cratemap"
    /\ UNCHANGED <<phase, targets, loaderRules, artifacts, pending, collected, loadResult,
                   builders, missing, cratemaps, output, calls, runs>>
    /\ LoadFrame

\* read_all_thrift_cratemaps
Cratemaps ==
    /\ pc = "cratemap"
    /\ IF CommandsPerBatch(CratemapRules(builders)) = 0
       THEN /\ cratemaps' = EmptyMap
            /\ pc' = "process"
            /\ UNCHANGED calls
       ELSE \E outs \in [1..CommandsPerBatch(CratemapRules(builders))
                            -> CmdOutcomes \cup {"unreadable_artifact"}] :
              /\ calls' = calls \o [i \in 1..Len(outs) |-> Call("buck build thrift cratemaps", outs[i])]
              /\ IF \A i \in 1..Len(outs) : outs[i] = "ok"
                 THEN /\ cratemaps' = [r \in CratemapRules(builders) |-> "cratemap"]
                      /\ pc' = "process"
                 ELSE /\ cratemaps' = EmptyMap
                      /\ pc' = "failed"
    /\ UNCHANGED <<phase, targets, loaderRules, artifacts, pending, collected, loadResult,
                   builders, missing, allRaw, output, runs>>
    /\ LoadFrame

\* process_manifest_builders
ProcessBuilders ==
    /\ pc = "process"
    /\ IF \E r \in DOMAIN builders : BuildPanics(allRaw, r \in DOMAIN cratemaps)
       THEN /\ pc' = "panicked"
            /\ UNCHANGED output
       ELSE /\ pc' = "done"
            /\ output' = Ok([processed_manifests |->
                                [r \in DOMAIN builders |->
                                    BuildManifest(builders[r], allRaw, r \in DOMAIN cratemaps)],
                             unprocessed_paths |->
                                {r.path : r \in DOMAIN allRaw} \ {r.path : r \in DOMAIN builders}])
    /\ UNCHANGED <<phase, targets, loaderRules, artifacts, pending, collected, loadResult,
                   builders, missing, allRaw, cratemaps, calls, runs>>
    /\ LoadFrame

LoadNext == Query \/ Build \/ ParseOne \/ LoadDone \/ Resolve \/ Merge \/ Cratemaps
            \/ ProcessBuilders


(***************************************************************************)
(* config.rs: the project catalog and select_based_on_paths_and_names      *)
(***************************************************************************)
MaxPaths == 1
MaxNames == 1

ProjectNames == {"proj1", "proj2", "proj3", "proj4"}

\* Names that may be asked for: those of the catalog and one that is not in it.
RequestNames == ProjectNames \cup {"nope"}

InputPaths == {"a", "b", "c", "d", "z"}

\* A glob pattern is given by the paths it matches; a root by the paths under it.
Glob(paths) == paths

matches_path(pattern, path) == path \in pattern

starts_with(path, root) == path \in root

\* ProjectConf, with the fields selection reads; the globs of the projects follow
\* the test's catalog, proj3 also excludes a path it includes and proj4 covers one
\* path through a root and another through the public_cargo_dir of its
\* oss_git_config.
ProjectConf(name, deps) ==
    [name |-> name,
     include_globs |-> CASE name = "proj1" -> {Glob({"a"})}
                         [] name = "proj2" -> {Glob({"b"})}
                         [] name = "proj3" -> {Glob({"c"}), Glob({"a", "c"})}
                         [] OTHER -> {},
     exclude_globs |-> IF name = "proj3" THEN {Glob({"a"})} ELSE {},
     roots |-> IF name = "proj4" THEN {{"b"}} ELSE {},
     public_cargo_dir |-> IF name = "proj4" THEN {{"d"}} ELSE {},
     dependencies |-> deps]

\* A cover decided by the globs alone.
covers_path_by_globs(c, path) ==
    /\ \E pattern \in c.include_globs : matches_path(pattern, path)
    /\ ~\E pattern \in c.exclude_globs : matches_path(pattern, path)

\* ProjectConf::covers_path
covers_path(c, path) ==
    IF \E pattern \in c.exclude_globs : matches_path(pattern, path) THEN FALSE
    ELSE IF \E pattern \in c.include_globs : matches_path(pattern, path) THEN TRUE
    ELSE IF \E root \in c.roots : starts_with(path, root) THEN TRUE
    ELSE \E dir \in c.public_cargo_dir : starts_with(path, dir)

\* The catalogs validate_projects accepts: names are unique and every dependency
\* names a project of the catalog.  proj1, proj2 and proj3 depend on each other in
\* every possible way (themselves and cycles included); proj4 stands alone, as in
\* the test's catalog.
LinkedProjects == ProjectNames \ {"proj4"}

Catalogs ==
    {[n \in ProjectNames |-> ProjectConf(n, IF n \in LinkedProjects THEN deps[n] ELSE {})] :
        deps \in [LinkedProjects -> SUBSET LinkedProjects]}

\* The first filter_map: the projects that cover one of the paths.
CoveringProjects(all, paths) ==
    {name \in DOMAIN all : \E p \in paths : covers_path(all[name], p)}

\* One round of the forward loop taken for the reverse one.
DependenciesOfFrontier(all, frontier, seen) ==
    (UNION {all[p].dependencies : p \in frontier}) \ seen

\* One round of the reverse loop that takes again what is already selected.
DependentsOfFrontierAgain(all, frontier, seen) ==
    {name \in DOMAIN all : \E p \in frontier : p \in all[name].dependencies}

\* One round of the reverse loop: the projects that depend on one of to_process,
\* less those already selected.
DependentsOfFrontier(all, frontier, seen) ==
    {name \in DOMAIN all : \E p \in frontier : p \in all[name].dependencies} \ seen

\* One round of the reverse loop taken for the forward one.
DependentsOfNames(all, frontier, seen) ==
    {name \in DOMAIN all : \E p \in frontier : p \in all[name].dependencies} \ seen

\* One round of the forward loop: the dependencies of to_process, less those
\* already selected.
DependenciesOfNames(all, frontier, seen) ==
    (UNION {all[p].dependencies : p \in frontier}) \ seen

\* A selection that forgot one of the two sets.
OnlyByPath(by_path, by_name) == by_path

\* &selected_by_path | &selected_by_name
SelectedUnion(by_path, by_name) == by_path \cup by_name

\* Order of the project names, as String's Ord gives it.
NameRank(name) ==
    CASE name = "proj1" -> 1 [] name = "proj2" -> 2 [] name = "proj3" -> 3
      [] name = "proj4" -> 4 [] OTHER -> 5

\* SelectedProjects::new: the projects sorted by name
RECURSIVE SortedByName(_)
SortedByName(names) ==
    IF names = {} THEN <<>>
    ELSE LET first == CHOOSE n \in names : \A m \in names : NameRank(n) <= NameRank(m)
         IN <<first>> \o SortedByName(names \ {first})

SelInit ==
    /\ projects \in Catalogs
    /\ selPaths \in {ps \in SUBSET InputPaths : Cardinality(ps) <= MaxPaths}
    /\ selNames \in {ns \in SUBSET RequestNames : Cardinality(ns) <= MaxNames}
    /\ selPc = "by_path"
    /\ selected_by_path = {}
    /\ selected_by_name = {}
    /\ to_process = {}
    /\ selected = NotRun

SelIdle ==
    /\ projects = EmptyMap
    /\ selPaths = {}
    /\ selNames = {}
    /\ selPc = "idle"
    /\ selected_by_path = {}
    /\ selected_by_name = {}
    /\ to_process = {}
    /\ selected = NotRun

\* lines 68-81: the projects covering a path, and the first frontier
SelectByPath ==
    /\ selPc = "by_path"
    /\ selected_by_path' = CoveringProjects(projects, selPaths)
    /\ to_process' = selected_by_path'
    /\ selPc' = "reverse"
    /\ UNCHANGED <<projects, selPaths, selNames, selected_by_name, selected>>
    /\ SelFrame

\* lines 82-97: one iteration of the reverse loop, or its exit
ReverseStep ==
    /\ selPc = "reverse"
    /\ IF to_process # {}
       THEN /\ to_process' = DependentsOfFrontier(projects, to_process, selected_by_path)
            /\ selected_by_path' = selected_by_path \cup to_process'
            /\ selPc' = "reverse"
       ELSE /\ selPc' = "names"
            /\ UNCHANGED <<to_process, selected_by_path>>
    /\ UNCHANGED <<projects, selPaths, selNames, selected_by_name, selected>>
    /\ SelFrame

\* lines 101-109: every name must be a project; the first forward frontier
CheckNames ==
    /\ selPc = "names"
    /\ IF \A name \in selNames : name \in DOMAIN projects
       THEN /\ selected_by_name' = selNames
            /\ to_process' = selNames
            /\ selPc' = "forward"
            /\ UNCHANGED selected
       ELSE /\ selected' = Err
            /\ selPc' = "error"
            /\ UNCHANGED <<selected_by_name, to_process>>
    /\ UNCHANGED <<projects, selPaths, selNames, selected_by_path>>
    /\ SelFrame

\* lines 110-117: one iteration of the forward loop, or its exit
ForwardStep ==
    /\ selPc = "forward"
    /\ IF to_process # {}
       THEN /\ to_process' = DependenciesOfNames(projects, to_process, selected_by_name)
            /\ selected_by_name' = selected_by_name \cup to_process'
            /\ selPc' = "forward"
       ELSE /\ selPc' = "union"
            /\ UNCHANGED <<to_process, selected_by_name>>
    /\ UNCHANGED <<projects, selPaths, selNames, selected_by_path, selected>>
    /\ SelFrame

\* lines 119-126: the union, sorted by SelectedProjects::new
SelectUnion ==
    /\ selPc = "union"
    /\ selected' = Ok(SortedByName(SelectedUnion(selected_by_path, selected_by_name)))
    /\ selPc' = "done"
    /\ UNCHANGED <<projects, selPaths, selNames, selected_by_path, selected_by_name,
                   to_process>>
    /\ SelFrame

SelNext == SelectByPath \/ ReverseStep \/ CheckNames \/ ForwardStep \/ SelectUnion

(***************************************************************************)
(* cargo_generator/generation/dependencies.rs: the dependency sections     *)
(***************************************************************************)
None == <<>>

Some(x) == <<x>>

unwrap_or(opt, default) == IF opt = None THEN default ELSE opt[1]

\* DependencyDetail::default(), less the unstable map
DefaultDetail ==
    [version |-> None, registry |-> None, registry_index |-> None, path |-> None,
     inherited |-> FALSE, git |-> None, branch |-> None, tag |-> None, rev |-> None,
     features |-> <<>>, optional |-> FALSE, default_features |-> TRUE, package |-> None]

Simple(version) == [kind |-> "Simple", version |-> version]

Detailed(detail) == [kind |-> "Detailed", detail |-> detail]

dependency_to_dependency_detail(dep) ==
    IF dep.kind = "Simple" THEN [DefaultDetail EXCEPT !.version = Some(dep.version)]
    ELSE dep.detail

\* A conversion that keeps the detailed form.
dependency_detail_kept(detail) == Detailed(detail)

\* A detail that only carries a version is written as the plain version.
dependency_detail_to_dependency(detail) ==
    IF /\ detail.version # None
       /\ [detail EXCEPT !.version = None] = DefaultDetail
    THEN Simple(detail.version[1])
    ELSE Detailed(detail)

\* CargoDependencyOverride::default(): every field is left alone
DefaultOverride ==
    [version |-> None, registry |-> None, registry_index |-> None, path |-> None,
     git |-> None, branch |-> None, tag |-> None, rev |-> None, features |-> None,
     optional |-> None, default_features |-> None, package |-> None]

\* fbsource/third-party/rust/Cargo.toml, with or without the cxx crate
third_party_crates(cxx) ==
    LET crates == [n \in {"serde", "clap", "foo-1", "cxx-build"} |->
                      CASE n = "serde" -> Simple("1.0")
                        [] n = "clap" -> Simple("4.0")
                        [] n = "foo-1" -> Detailed([DefaultDetail EXCEPT !.version = Some("1"),
                                                                          !.package = Some("foo")])
                        [] OTHER -> Simple("1.0.0")]
    IN IF cxx THEN [n \in DOMAIN crates \cup {"cxx"} |->
                       IF n = "cxx" THEN Simple("1.0.9") ELSE crates[n]]
       ELSE crates

\* Alias(Option<&str>) is None for a plain dependency.
detail_to_dep(package_name, detail, optional_deps, alias) ==
    dependency_detail_to_dependency(
        [detail EXCEPT
            !.optional = IF alias # None THEN alias[1] \in optional_deps
                         ELSE package_name \in optional_deps,
            !.package = IF alias # None /\ alias[1] # package_name
                        THEN Some(package_name) ELSE None])

\* Ok([name, dep]) or Err when the crate is not a third-party crate
get_third_party_dependency(c, alias, tp_name) ==
    LET crates == third_party_crates(c.cxx) IN
    IF tp_name \notin DOMAIN crates THEN Err
    ELSE LET dep == crates[tp_name]
             package_name == IF dep.kind = "Detailed" /\ dep.detail.package # None
                             THEN dep.detail.package[1] ELSE tp_name
         IN Ok([name |-> package_name,
                dep |-> detail_to_dep(package_name, dependency_to_dependency_detail(dep),
                                      c.optional_deps, alias)])

\* The project catalog the generator is created with: each project covers TARGETS
\* directories and may have an oss_git_config.  Nothing forbids two projects to
\* cover one directory: pz covers da as pa does.
AllConfigs ==
    [n \in {"pa", "pc", "pd", "ps", "pu", "pz"} |->
        [name |-> n,
         include_globs |-> CASE n = "pa" -> {Glob({"da"})} [] n = "pc" -> {Glob({"dc"})}
                             [] n = "pd" -> {Glob({"dd"})} [] n = "pu" -> {Glob({"du"})}
                             [] n = "ps" -> {Glob({THRIFT_COMPILER_RULE.path,
                                                   CODEGEN_INCLUDER_PROC_MACRO_RULE.path})}
                             [] OTHER -> {},
         exclude_globs |-> {},
         roots |-> IF n = "pz" THEN {{"da"}} ELSE {},
         public_cargo_dir |-> {},
         oss_git |-> CASE n \in {"pa", "ps", "pu"} -> Some("git1") [] n = "pc" -> Some("git2")
                       [] OTHER -> None]]

\* targets_to_projects().get(to_targets_path) and the project's oss_git_config:
\* the git repository the project of a TARGETS directory is published to, if any
to_oss_git(c, targets_path) ==
    IF targets_path \in DOMAIN c.targets_to_projects
    THEN AllConfigs[c.targets_to_projects[targets_path]].oss_git
    ELSE None

\* diff_paths from the directory of the generated Cargo.toml (du) to the one of
\* the dependency's Cargo.toml
RelativePath(targets_path) ==
    CASE targets_path = "du" -> "."
      [] targets_path = "da" -> "../da"
      [] targets_path = "dc" -> "../dc"
      [] targets_path = "dd" -> "../dd"
      [] targets_path = THRIFT_COMPILER_RULE.path -> "../common/rust/shed/thrift_compiler"
      [] targets_path = CODEGEN_INCLUDER_PROC_MACRO_RULE.path
           -> "../common/rust/shed/codegen_includer_proc_macro"
      [] OTHER -> "../dx"

\* Ok(None) when an oss manifest depends on a rule that is not published, else
\* Ok(Some([name, dep])): a git dependency across repositories, a path one within
\* a repository or without oss.  The projects are maintained by autocargo, so no
\* feature is added.
get_fbcode_dependency(c, alias, rule) ==
    LET to_git == to_oss_git(c, rule.path)
        from_git == IF c.oss THEN Some("git1") ELSE None
        oss_dep == from_git # None /\ to_git # None
        version == IF oss_dep THEN Some("0.1.0") ELSE None
        detail == IF oss_dep /\ from_git # to_git
                  THEN [DefaultDetail EXCEPT !.version = version, !.git = to_git]
                  ELSE [DefaultDetail EXCEPT !.version = version,
                                              !.path = Some(RelativePath(rule.path))]
    IN IF from_git # None /\ to_git = None THEN Ok(None)
       ELSE Ok(Some([name |-> rule.name,
                     dep |-> detail_to_dep(rule.name, detail, c.optional_deps, alias)]))

\* Either resolver, by the kind of the target: Ok(None), Ok(Some([name, dep])) or Err
ResolveTarget(c, alias, target) ==
    IF target.kind = "ThirdPartyCrate"
    THEN LET r == get_third_party_dependency(c, alias, target.name)
         IN IF r.status = "Ok" THEN Ok(Some(r.value)) ELSE Err
    ELSE get_fbcode_dependency(c, alias, target.rule)

\* An override that leaves the version of cxx-build to the override map.
apply_override_plain(c, key, dep, ov) ==
    LET d == dependency_to_dependency_detail(dep) IN
    dependency_detail_to_dependency(
        [version |-> unwrap_or(ov.version, d.version),
         registry |-> unwrap_or(ov.registry, d.registry),
         registry_index |-> unwrap_or(ov.registry_index, d.registry_index),
         path |-> unwrap_or(ov.path, d.path),
         inherited |-> d.inherited,
         git |-> unwrap_or(ov.git, d.git),
         branch |-> unwrap_or(ov.branch, d.branch),
         tag |-> unwrap_or(ov.tag, d.tag),
         rev |-> unwrap_or(ov.rev, d.rev),
         features |-> unwrap_or(ov.features, d.features),
         optional |-> unwrap_or(ov.optional, d.optional),
         default_features |-> unwrap_or(ov.default_features, d.default_features),
         package |-> unwrap_or(ov.package, d.package)])

\* An override whose stated version wins over the version of cxx.
apply_override_stated_first(c, key, dep, ov) ==
    LET d == dependency_to_dependency_detail(dep)
        cxx_dep == get_third_party_dependency(c, None, "cxx")
        fixed_up_version ==
            IF key = "cxx-build" /\ cxx_dep.status = "Ok" /\ ov.version = None
            THEN dependency_to_dependency_detail(cxx_dep.value.dep).version
            ELSE unwrap_or(ov.version, d.version)
    IN dependency_detail_to_dependency(
        [version |-> fixed_up_version,
         registry |-> unwrap_or(ov.registry, d.registry),
         registry_index |-> unwrap_or(ov.registry_index, d.registry_index),
         path |-> unwrap_or(ov.path, d.path),
         inherited |-> d.inherited,
         git |-> unwrap_or(ov.git, d.git),
         branch |-> unwrap_or(ov.branch, d.branch),
         tag |-> unwrap_or(ov.tag, d.tag),
         rev |-> unwrap_or(ov.rev, d.rev),
         features |-> unwrap_or(ov.features, d.features),
         optional |-> unwrap_or(ov.optional, d.optional),
         default_features |-> unwrap_or(ov.default_features, d.default_features),
         package |-> unwrap_or(ov.package, d.package)])

\* apply_override
apply_override(c, key, dep, ov) ==
    LET d == dependency_to_dependency_detail(dep)
        cxx_dep == get_third_party_dependency(c, None, "cxx")
        fixed_up_version ==
            IF key = "cxx-build" /\ cxx_dep.status = "Ok"
            THEN dependency_to_dependency_detail(cxx_dep.value.dep).version
            ELSE unwrap_or(ov.version, d.version)
    IN dependency_detail_to_dependency(
        [version |-> fixed_up_version,
         registry |-> unwrap_or(ov.registry, d.registry),
         registry_index |-> unwrap_or(ov.registry_index, d.registry_index),
         path |-> unwrap_or(ov.path, d.path),
         inherited |-> d.inherited,
         git |-> unwrap_or(ov.git, d.git),
         branch |-> unwrap_or(ov.branch, d.branch),
         tag |-> unwrap_or(ov.tag, d.tag),
         rev |-> unwrap_or(ov.rev, d.rev),
         features |-> unwrap_or(ov.features, d.features),
         optional |-> unwrap_or(ov.optional, d.optional),
         default_features |-> unwrap_or(ov.default_features, d.default_features),
         package |-> unwrap_or(ov.package, d.package)])

\* A difference that drops every key of the base, whatever its value.
deps_difference_by_key(base_dependencies, other_dependencies) ==
    [k \in DOMAIN other_dependencies \ DOMAIN base_dependencies |-> other_dependencies[k]]

deps_difference(base_dependencies, other_dependencies) ==
    [k \in {k \in DOMAIN other_dependencies :
               ~(k \in DOMAIN base_dependencies
                 /\ base_dependencies[k] = other_dependencies[k])}
       |-> other_dependencies[k]]

\* The sections of the manifest, in the order generate fills them.
Sections == <<"dependencies", "dev-dependencies", "build-dependencies">>

\* An edge of the unit: src is deps or named_deps (the consolidated dependencies)
\* or the variant of a BuckDependencyOverride of extra_buck_dependencies.
Edge(src, alias, target) == [src |-> src, alias |-> alias, target |-> target]

\* The loop of compute that reads the edge: third-party deps, fbcode deps,
\* third-party named_deps, fbcode named_deps, extra_buck_dependencies.
Loop(e) ==
    CASE e.src = "deps" -> IF e.target.kind = "ThirdPartyCrate" THEN 1 ELSE 2
      [] e.src = "named_deps" -> IF e.target.kind = "ThirdPartyCrate" THEN 3 ELSE 4
      [] OTHER -> 5

\* removed_third_party and removed_fbcode
Removed(es) == {e.target : e \in {x \in es : x.src = "RemovedDep"}}

\* The removal taken to filter the added edges too.
SkippedAlsoAdded(es, e) == e.src = "RemovedDep" \/ e.target \in Removed(es)

\* The edges that add nothing: a base edge whose target is removed, and the
\* removals themselves.
Skipped(es, e) ==
    \/ e.src = "RemovedDep"
    \/ e.src \in {"deps", "named_deps"} /\ e.target \in Removed(es)

\* An insertion that overwrites instead of comparing.
add_to_deps_overwrite(set, key, value) ==
    Ok([k \in DOMAIN set \cup {key} |-> IF k = key THEN value ELSE set[k]])

\* The closure add_to_deps: an error when the key is there with another value
add_to_deps(set, key, value) ==
    IF key \in DOMAIN set /\ value # set[key] THEN Err
    ELSE Ok([k \in DOMAIN set \cup {key} |-> IF k = key THEN value ELSE set[k]])

\* What one edge contributes: Ok(None) for nothing, Ok(Some([key, dep])), or Err
Contribution(c, es, e) ==
    IF Skipped(es, e) THEN Ok(None)
    ELSE LET r == ResolveTarget(c, e.alias, e.target)
         IN IF r.status = "Ok" /\ r.value # None
            THEN Ok(Some([key |-> IF e.alias # None THEN e.alias[1] ELSE r.value[1].name,
                          dep |-> r.value[1].dep]))
            ELSE r

\* The end of compute: the keys of dependencies_override that deps_set lacks
\* start from an empty detail, and every entry goes through apply_override.
OverrideAll(c, set, ovs) ==
    [key \in DOMAIN set \cup DOMAIN ovs |->
        apply_override(c, key,
                       IF key \in DOMAIN set THEN set[key] ELSE Detailed(DefaultDetail),
                       IF key \in DOMAIN ovs THEN ovs[key] ELSE DefaultOverride)]

GenIdle ==
    /\ cfg = [optional_deps |-> {}, oss |-> FALSE, cxx |-> TRUE,
              targets_to_projects |-> EmptyMap]
    /\ edges = [i \in DOMAIN Sections |-> {}]
    /\ raw_overrides = [i \in DOMAIN Sections |-> EmptyMap]
    /\ overrides = [i \in DOMAIN Sections |-> EmptyMap]
    /\ section = 1
    /\ gpc = "idle"
    /\ todo = {}
    /\ deps_set = EmptyMap
    /\ computed = [i \in DOMAIN Sections |-> NotRun]
    /\ result = [i \in DOMAIN Sections |-> NotRun]

UnitIdle ==
    /\ unit = {}
    /\ upc = "idle"
    /\ run = 1
    /\ previous = [i \in DOMAIN Sections |-> NotRun]

TimeIdle ==
    /\ now = 0
    /\ soft_timeout = 0
    /\ call = [ready |-> FALSE, output |-> "none"]
    /\ wrapper = [pc |-> "idle", timer |-> "armed", output |-> "none", at |-> 0]
    /\ warnings = <<>>

LockIdle ==
    /\ cargo_locks = <<>>
    /\ lockgen = [pc |-> "idle", started |-> 0, tasks |-> <<>>]

InputIdle ==
    /\ manifests = {}
    /\ geninput = NotRun

CatalogIdle ==
    /\ configs = <<>>
    /\ catalog = NotRun

MaxInputs == 3
MaxOverridden == 1

\* The subsets of S of at most k elements.
RECURSIVE AtMost(_, _)
AtMost(S, k) ==
    IF k = 0 THEN {{}}
    ELSE LET smaller == AtMost(S, k - 1)
         IN smaller \cup {T \cup {x} : T \in smaller, x \in S}


\* The edges a section of the unit may have.
SectionEdges ==
    {Edge("deps", None, t) :
        t \in {ThirdPartyCrate("serde"), ThirdPartyCrate("foo-1"),
               ThirdPartyCrate("cxx-build"), ThirdPartyCrate("ghost"),
               FbcodeCrate(RuleA), FbcodeCrate(RuleC), FbcodeCrate(RuleD)}}
    \cup {Edge("named_deps", Some("renamed"), ThirdPartyCrate("serde")),
          Edge("named_deps", Some("serde"), ThirdPartyCrate("foo-1")),
          Edge("named_deps", Some("renamed"), FbcodeCrate(RuleA))}
    \cup {Edge("Dep", None, ThirdPartyCrate("serde")), Edge("Dep", None, FbcodeCrate(RuleA))}
    \cup {Edge("NamedDep", Some("renamed"), ThirdPartyCrate("serde")),
          Edge("NamedDep", Some("serde"), ThirdPartyCrate("serde")),
          Edge("NamedDep", Some("renamed"), FbcodeCrate(RuleA))}
    \cup {Edge("RemovedDep", None, t) :
             t \in {ThirdPartyCrate("serde"), ThirdPartyCrate("foo-1"), FbcodeCrate(RuleA)}}

\* The edges the test and the build sections take theirs from.
DevEdges ==
    {e \in SectionEdges :
        /\ e.target \in {ThirdPartyCrate("serde"), ThirdPartyCrate("foo-1")}
        /\ e.alias # Some("serde")}

BuildEdges ==
    {Edge("deps", None, ThirdPartyCrate("cxx-build")), Edge("Dep", None, ThirdPartyCrate("serde"))}

\* One overridden field of one key of a section's dependencies_override.
OverrideField(sec, key, field, value) ==
    [input |-> "override", section |-> sec, key |-> key, field |-> field, value |-> value]

\* What the autocargo field of a rule can say about a field of an entry: null or
\* a value of the field's type.  Saying nothing is the absence of the field.
StringFields ==
    {"version", "registry", "registry_index", "path", "git", "branch", "tag", "rev", "package"}

FieldOverrides(field) ==
    CASE field \in StringFields -> {"null", "string"}
      [] field = "features" -> {"null", "[]", "[f]"}
      [] OTHER -> {"null", "false", "true"}

\* Deserialize of CargoDependencyOverride: the Option<Option<String>> fields go
\* through double_option, where null is Some(None); for the Option<Vec<String>>
\* and Option<bool> fields null is None.
deserialize_field(field, text) ==
    CASE text = "null" -> IF field \in StringFields THEN Some(None) ELSE None
      [] text = "string" -> Some(Some("set"))
      [] text = "[]" -> Some(<<>>)
      [] text = "[f]" -> Some(<<"f">>)
      [] text = "false" -> Some(FALSE)
      [] OTHER -> Some(TRUE)

\* dependencies_override of a section as the rule states it: key -> field -> text
RawOverrideMap(items, sec) ==
    LET mine == {x \in items : x.input = "override" /\ x.section = sec}
    IN [key \in {x.key : x \in mine} |->
           [f \in {x.field : x \in {y \in mine : y.key = key}} |->
               (CHOOSE x \in mine : x.key = key /\ x.field = f).value]]

\* dependencies_override of a section, deserialized
OverrideMap(raw) ==
    [key \in DOMAIN raw |->
        [f \in DOMAIN DefaultOverride |->
            IF f \in DOMAIN raw[key] THEN deserialize_field(f, raw[key][f]) ELSE None]]

\* No two items override the same field of the same key.
Consistent(items) ==
    \A x, y \in {z \in items : z.input = "override"} :
        (x.section = y.section /\ x.key = y.key /\ x.field = y.field) => x = y

EdgesOf(items, sec) == {x.edge : x \in {z \in items : z.input = "edge" /\ z.section = sec}}

\* The inputs of generate: edges of the three sections, a version override or
\* two, and the unit's features and oss configuration.
GenInputs ==
    {[input |-> "edge", section |-> 1, edge |-> e] : e \in SectionEdges}
    \cup {[input |-> "edge", section |-> 2, edge |-> e] : e \in DevEdges}
    \cup {[input |-> "edge", section |-> 3, edge |-> e] : e \in BuildEdges}
    \cup {OverrideField(1, "serde", "version", "string"),
          OverrideField(2, "serde", "version", "string"),
          OverrideField(2, "extra", "version", "string")}
    \cup {[input |-> "optional", name |-> "serde"], [input |-> "oss"]}

GenStart(items, cxx) ==
    /\ cfg = [optional_deps |-> {x.name : x \in {z \in items : z.input = "optional"}},
              oss |-> \E x \in items : x.input = "oss",
              cxx |-> cxx,
              targets_to_projects |-> ("da" :> "pa") @@ ("dc" :> "pc") @@ ("dd" :> "pd")]
    /\ edges = [i \in DOMAIN Sections |-> EdgesOf(items, i)]
    /\ raw_overrides = [i \in DOMAIN Sections |-> RawOverrideMap(items, i)]
    /\ overrides = [i \in DOMAIN Sections |-> OverrideMap(RawOverrideMap(items, i))]
    /\ section = 1
    /\ gpc = "compute"
    /\ todo = EdgesOf(items, 1)
    /\ deps_set = EmptyMap
    /\ computed = [i \in DOMAIN Sections |-> NotRun]
    /\ result = [i \in DOMAIN Sections |-> NotRun]

GenInit ==
    \E items \in AtMost(GenInputs, MaxInputs) :
        GenStart(items, TRUE) /\ LoadIdle /\ SelIdle /\ UnitIdle /\ TimeIdle /\ LockIdle /\ InputIdle /\ CatalogIdle

\* The inputs of generate that exercise apply_override: one edge at most, and one
\* key of the dependencies section with overridden fields.
OverrideKeys == {"serde", "renamed", "cxx-build", "a"}

\* Edges that resolve to a plain version, to a renamed package, to cxx-build and
\* to a path.
OverriddenEdges ==
    {Edge("deps", None, ThirdPartyCrate("serde")),
     Edge("named_deps", Some("renamed"), ThirdPartyCrate("serde")),
     Edge("deps", None, ThirdPartyCrate("cxx-build")), Edge("deps", None, FbcodeCrate(RuleA))}

KeyOverrides(key) ==
    UNION {{OverrideField(1, key, f, v) : v \in FieldOverrides(f)} : f \in DOMAIN DefaultOverride}

OverrideInit ==
    \E es \in AtMost({[input |-> "edge", section |-> 1, edge |-> x] : x \in OverriddenEdges}, 1),
       key \in OverrideKeys,
       flags \in SUBSET {[input |-> "optional", name |-> "serde"]},
       cxx \in BOOLEAN :
       \E ovs \in AtMost(KeyOverrides(key), MaxOverridden) :
          /\ Consistent(ovs)
          /\ GenStart(es \cup ovs \cup flags, cxx)
          /\ LoadIdle /\ SelIdle /\ UnitIdle /\ TimeIdle /\ LockIdle /\ InputIdle /\ CatalogIdle

\* One iteration of one of compute's loops, in the order of the loops and in any
\* order within a loop.
AddToDeps ==
    /\ gpc = "compute"
    /\ \E e \in todo :
          /\ \A x \in todo : Loop(e) <= Loop(x)
          /\ LET c == Contribution(cfg, edges[section], e)
                 added == IF c.status = "Ok" /\ c.value # None
                          THEN add_to_deps(deps_set, c.value[1].key, c.value[1].dep)
                          ELSE IF c.status = "Ok" THEN Ok(deps_set) ELSE Err
             IN IF added.status = "Ok"
                THEN /\ deps_set' = added.value
                     /\ todo' = todo \ {e}
                     /\ UNCHANGED <<gpc, result>>
                ELSE /\ gpc' = "failed"
                     /\ result' = [result EXCEPT ![section] = Err]
                     /\ UNCHANGED <<deps_set, todo>>
    /\ UNCHANGED <<cfg, edges, raw_overrides, overrides, section, computed>>
    /\ GenFrame

\* compute is through its loops.
ComputeDone(sec) == gpc = "compute" /\ section = sec /\ todo = {}

\* The section's compute and result are stored; the next section's compute
\* starts, or generate returns.
Store(sec, set) ==
    /\ computed' = [computed EXCEPT ![sec] = Ok(OverrideAll(cfg, deps_set, overrides[sec]))]
    /\ result' = [result EXCEPT ![sec] = Ok(set)]
    /\ deps_set' = EmptyMap
    /\ IF sec < Len(Sections)
       THEN /\ section' = sec + 1
            /\ todo' = edges[sec + 1]
            /\ gpc' = "compute"
       ELSE /\ gpc' = "done"
            /\ UNCHANGED <<section, todo>>
    /\ UNCHANGED <<cfg, edges, raw_overrides, overrides>>

gen_regular_dependencies ==
    /\ ComputeDone(1)
    /\ Store(1, OverrideAll(cfg, deps_set, overrides[1]))
    /\ GenFrame

gen_dev_dependencies ==
    /\ ComputeDone(2)
    /\ Store(2, deps_difference(result[1].value, OverrideAll(cfg, deps_set, overrides[2])))
    /\ GenFrame

gen_build_dependencies ==
    /\ ComputeDone(3)
    /\ Store(3, OverrideAll(cfg, deps_set, overrides[3]))
    /\ GenFrame

GenNext == AddToDeps \/ gen_regular_dependencies \/ gen_dev_dependencies
           \/ gen_build_dependencies

(***************************************************************************)
(* cargo_generator: one output unit, from CargoGenerator::new over         *)
(* ConsolidatedDependencies::new to DependenciesGenerator::generate        *)
(***************************************************************************)
MaxUnitInputs == 2

\* The unit is generated from du/TARGETS: a library, a binary and a test.
RuleU == FbcodeBuckRule("du", "u")

local_rules == {"u", "ubin", "utest"}

\* Rules of other TARGETS files: an ignored library, a binary, and a library no
\* project covers.
RuleI == FbcodeBuckRule("dc", "i")
RuleBin == FbcodeBuckRule("dc", "bin")
RuleX == FbcodeBuckRule("dx", "x")

\* The fields of a rule's RawBuckManifest the consolidation reads.
UnitRaw(rule) ==
    [name |-> rule.name,
     fbconfig_rule_type |-> IF rule = RuleBin THEN "RustBinary" ELSE "RustLibrary",
     ignore_rule |-> rule = RuleI]

\* A dependency of a rule of the unit: rule is lib, bin or test, field the field of
\* its BuckManifest.
UnitDep(rule, field, alias, target) ==
    [input |-> "dep", rule |-> rule, field |-> field, alias |-> alias, target |-> target]

\* An entry of the extra_buck_dependencies of the unit's cargo_toml_config.
UnitExtra(sec, variant, alias, target) ==
    [input |-> "extra", section |-> sec, edge |-> Edge(variant, alias, target)]

UnitInputs ==
    {UnitDep("test", "deps", None, FbcodeCrate(RuleU)),
     UnitDep("bin", "deps", None, FbcodeCrate(RuleU)),
     UnitDep("bin", "named_deps", Some("renamed"), FbcodeCrate(RuleU)),
     UnitDep("lib", "test_deps", None, FbcodeCrate(RuleA)),
     UnitDep("lib", "named_deps", Some("renamed"), FbcodeCrate(RuleI)),
     UnitDep("test", "deps", None, FbcodeCrate(RuleBin)),
     UnitDep("test", "named_deps", Some("renamed"), FbcodeCrate(RuleX)),
     UnitDep("bin", "deps", None, ThirdPartyCrate("clap"))}
    \cup {UnitDep("lib", "deps", None, FbcodeCrate(r)) :
             r \in {RuleA, FbcodeBuckRule("da", "u"), RuleI, RuleBin, RuleX, RuleD}}
    \cup {UnitExtra(1, "Dep", None, FbcodeCrate(RuleU)),
          UnitExtra(1, "Dep", None, FbcodeCrate(RuleBin)),
          UnitExtra(1, "NamedDep", Some("renamed"), FbcodeCrate(RuleX)),
          UnitExtra(2, "Dep", None, FbcodeCrate(RuleI)),
          UnitExtra(1, "RemovedDep", None, FbcodeCrate(RuleA)),
          UnitExtra(3, "Dep", None, FbcodeCrate(RuleA)),
          [input |-> "oss"],
          [input |-> "thrift"]}

\* The TARGETS directories the unit refers to and that are not processed.
unprocessed_paths(u) ==
    {x.target.rule.path : x \in {y \in u : y.input = "dep" /\ y.target.kind = "FbcodeCrate"}}
    \cup {x.edge.target.rule.path : x \in {y \in u : y.input = "extra"}}
    \cup (IF \E x \in u : x.input = "thrift"
          THEN {THRIFT_COMPILER_RULE.path, CODEGEN_INCLUDER_PROC_MACRO_RULE.path}
          ELSE {})

\* resolve_projects_for_paths: for each path a project that covers it, the first
\* that the iteration over the HashMap of projects finds; a path no project
\* covers is left out.  The result is one of these maps.
resolve_projects_for_paths(all, paths) ==
    LET covered == {path \in paths : \E n \in DOMAIN all : covers_path(all[n], path)}
    IN {m \in [covered -> DOMAIN all] : \A path \in covered : covers_path(all[m[path]], path)}

\* An acceptance that does not ask whether a project covers the TARGETS file.
try_new_uncovered(c, targets_path, raw) ==
    IF raw.ignore_rule THEN FALSE
    ELSE raw.fbconfig_rule_type = "RustLibrary"

\* FbcodeRule::try_new: whether a rule is taken as a dependency
try_new(c, targets_path, raw) ==
    IF raw.ignore_rule \/ targets_path \notin DOMAIN c.targets_to_projects THEN FALSE
    ELSE raw.fbconfig_rule_type = "RustLibrary"

\* A consolidation that does not look at the rules of the unit.
from_deps_any(c, local_targets_path, deps) ==
    {d \in deps :
        \/ d.target.kind = "ThirdPartyCrate"
        \/ try_new(c, d.target.rule.path, UnitRaw(d.target.rule))}

\* A consolidation that keeps the unit's rules out of the tests' dependencies only.
from_deps_of_tests(c, local_targets_path, deps) ==
    {d \in deps :
        \/ d.target.kind = "ThirdPartyCrate"
        \/ /\ ~(d.rule = "test" /\ d.target.rule.path = local_targets_path
                                /\ d.target.rule.name \in local_rules)
           /\ try_new(c, d.target.rule.path, UnitRaw(d.target.rule))}

\* Deps::from_deps and NamedDeps::from_named_deps: the third-party dependencies,
\* and the fbcode ones that are not rules of the unit and that try_new takes
from_deps(c, local_targets_path, deps) ==
    {d \in deps :
        \/ d.target.kind = "ThirdPartyCrate"
        \/ /\ ~(d.target.rule.path = local_targets_path /\ d.target.rule.name \in local_rules)
           /\ try_new(c, d.target.rule.path, UnitRaw(d.target.rule))}

\* The fields of the unit's manifests a section's Deps and NamedDeps are made of:
\* deps and named_deps of lib and bins for [dependencies]; the test_ fields of lib
\* and bins and deps and named_deps of the tests for [dev-dependencies]; none
\* feeds [build-dependencies].
FeedsSection(sec, x) ==
    CASE sec = 1 -> x.rule \in {"lib", "bin"} /\ x.field \in {"deps", "named_deps"}
      [] sec = 2 -> \/ x.rule \in {"lib", "bin"} /\ x.field \in {"test_deps", "test_named_deps"}
                    \/ x.rule = "test" /\ x.field \in {"deps", "named_deps"}
      [] OTHER -> FALSE

\* The library's thrift_config, if it has one.
thrift_config(u) == \E x \in u : x.input = "thrift"

\* The includer inserted into deps.fbcode when the library has a thrift_config.
codegen_deps(u, sec) ==
    IF sec = 1 /\ thrift_config(u)
    THEN {Edge("deps", None, FbcodeCrate(CODEGEN_INCLUDER_PROC_MACRO_RULE))}
    ELSE {}

\* Build dependencies that take both pseudo-dependencies.
build_deps_with_includer(u, sec) ==
    IF sec = 3 /\ thrift_config(u)
    THEN {Edge("deps", None, FbcodeCrate(THRIFT_COMPILER_RULE)),
          Edge("deps", None, FbcodeCrate(CODEGEN_INCLUDER_PROC_MACRO_RULE))}
    ELSE {}

\* build_deps: the thrift compiler when the library has a thrift_config
build_deps(u, sec) ==
    IF sec = 3 /\ thrift_config(u)
    THEN {Edge("deps", None, FbcodeCrate(THRIFT_COMPILER_RULE))}
    ELSE {}

\* ConsolidatedDependencies::new, and the extra_buck_dependencies generate hands
\* to the section: the edges compute reads
ConsolidatedDependencies(c, u, sec) ==
    {Edge(IF d.alias = None THEN "deps" ELSE "named_deps", d.alias, d.target) :
        d \in from_deps(c, "du", {x \in u : x.input = "dep" /\ FeedsSection(sec, x)})}
    \cup codegen_deps(u, sec)
    \cup build_deps(u, sec)
    \cup {x.edge : x \in {y \in u : y.input = "extra" /\ y.section = sec}}

UnitInit ==
    /\ unit \in AtMost(UnitInputs, MaxUnitInputs)
    /\ upc = "new"
    /\ run = 1
    /\ previous = [i \in DOMAIN Sections |-> NotRun]
    /\ cfg = [optional_deps |-> {}, oss |-> \E x \in unit : x.input = "oss", cxx |-> TRUE,
              targets_to_projects |-> EmptyMap]
    /\ edges = [i \in DOMAIN Sections |-> {}]
    /\ raw_overrides = [i \in DOMAIN Sections |-> EmptyMap]
    /\ overrides = [i \in DOMAIN Sections |-> EmptyMap]
    /\ section = 1
    /\ gpc = "idle"
    /\ todo = {}
    /\ deps_set = EmptyMap
    /\ computed = [i \in DOMAIN Sections |-> NotRun]
    /\ result = [i \in DOMAIN Sections |-> NotRun]
    /\ LoadIdle /\ SelIdle /\ TimeIdle /\ LockIdle /\ InputIdle /\ CatalogIdle

\* CargoGenerator::new: targets_to_projects is resolve_projects_for_paths of the
\* unprocessed paths, extended with the TARGETS of the selected project (pu)
CargoGenerator_new ==
    /\ upc = "new"
    /\ \E m \in resolve_projects_for_paths(AllConfigs, unprocessed_paths(unit) \ {"du"}) :
          cfg' = [cfg EXCEPT !.targets_to_projects = ("du" :> "pu") @@ m]
    /\ upc' = "consolidate"
    /\ UNCHANGED <<edges, raw_overrides, overrides, section, gpc, todo, deps_set, computed,
                   result, unit, run, previous>>
    /\ UnitFrame

\* generate_manifest_impl: ConsolidatedDependencies::new, then generate starts
generate_manifest_impl ==
    /\ upc = "consolidate"
    /\ edges' = [i \in DOMAIN Sections |-> ConsolidatedDependencies(cfg, unit, i)]
    /\ todo' = edges'[1]
    /\ gpc' = "compute"
    /\ upc' = "generate"
    /\ UNCHANGED <<cfg, raw_overrides, overrides, section, deps_set, computed, result,
                   unit, run, previous>>
    /\ UnitFrame

\* The program is run again over the same input.
Rerun ==
    /\ upc = "generate"
    /\ gpc \in {"done", "failed"}
    /\ run = 1
    /\ run' = 2
    /\ previous' = result
    /\ upc' = "new"
    /\ cfg' = [cfg EXCEPT !.targets_to_projects = EmptyMap]
    /\ edges' = [i \in DOMAIN Sections |-> {}]
    /\ section' = 1
    /\ gpc' = "idle"
    /\ todo' = {}
    /\ deps_set' = EmptyMap
    /\ computed' = [i \in DOMAIN Sections |-> NotRun]
    /\ result' = [i \in DOMAIN Sections |-> NotRun]
    /\ UNCHANGED <<raw_overrides, overrides, unit>>
    /\ UnitFrame

UnitNext == CargoGenerator_new \/ generate_manifest_impl \/ GenNext \/ Rerun

(***************************************************************************)
(* util/future_timeout.rs: future_soft_timeout around one external call    *)
(***************************************************************************)
MaxTime == 3
MaxTimeout == 2

\* What the wrapped call can return: run_command wraps a Result<(Command, Output)>.
CallOutputs == {"Ok", "Err"}

\* start is tick 0.
soft_timeout_at == 0 + soft_timeout

\* A wrapper that gives up on the call when the timer fires.
AbortAfterSoftTimeout(w) == [w EXCEPT !.pc = "returned", !.timer = "terminated",
                                      !.output = "Elapsed", !.at = now]

\* The soft_timeout branch of the select: the callback has run, the fused timer
\* is terminated, and the loop goes on.
AfterSoftTimeout(w) == [w EXCEPT !.timer = "terminated"]

TimeInit ==
    /\ now = 0
    /\ soft_timeout \in 0..MaxTimeout
    /\ call = [ready |-> FALSE, output |-> "none"]
    /\ wrapper = [pc |-> "select", timer |-> "armed", output |-> "none", at |-> 0]
    /\ warnings = <<>>
    /\ LoadIdle /\ SelIdle /\ GenIdle /\ UnitIdle /\ LockIdle /\ InputIdle /\ CatalogIdle

\* Time passes.
Tick ==
    /\ now < MaxTime
    /\ now' = now + 1
    /\ UNCHANGED <<soft_timeout, call, wrapper, warnings>>
    /\ TimeFrame

\* The external call ends: the wrapped future is ready with its output.
CallCompletes ==
    /\ ~call.ready
    /\ wrapper.pc = "select"
    /\ \E out \in CallOutputs : call' = [ready |-> TRUE, output |-> out]
    /\ UNCHANGED <<now, soft_timeout, wrapper, warnings>>
    /\ TimeFrame

\* One poll of the loop of select_biased!: the wrapped future is polled first,
\* and it calls at_end_if_timedout when it finishes past soft_timeout_at; only
\* when it is pending is the timer polled, which calls after_soft_timeout once
\* it has elapsed.
Poll ==
    /\ wrapper.pc = "select"
    /\ IF call.ready
       THEN /\ wrapper' = [wrapper EXCEPT !.pc = "returned", !.output = call.output, !.at = now]
            /\ warnings' = IF soft_timeout_at < now
                           THEN Append(warnings, [callback |-> "at_end_if_timedout", at |-> now])
                           ELSE warnings
       ELSE /\ wrapper.timer = "armed"
            /\ soft_timeout_at <= now
            /\ wrapper' = AfterSoftTimeout(wrapper)
            /\ warnings' = Append(warnings, [callback |-> "after_soft_timeout", at |-> now])
    /\ UNCHANGED <<now, soft_timeout, call>>
    /\ TimeFrame

TimeNext == Tick \/ CallCompletes \/ Poll

(***************************************************************************)
(* bin/autocargo/generate_cargo_locks.rs: one blocking task per directory  *)
(***************************************************************************)
MaxLocks == 3

LockDirs == {"l1", "l2"}

\* What generate_cargo_lock, run by spawn_blocking, can come to: Ok, Err, or a
\* panic that the JoinHandle reports as a JoinError.
TaskOutcomes == {"ok", "err", "panicked"}

\* A stream that starts the next directory while one is still being awaited.
MayStartUnordered(l) == l.pc \in {"next", "awaiting"}

\* try_for_each takes the next item of the FuturesOrdered only once the future
\* made for the previous item has completed with Ok.
MayStart(l) == l.pc = "next"

LockInit ==
    /\ \E n \in 0..MaxLocks : cargo_locks \in [1..n -> LockDirs]
    /\ lockgen = [pc |-> "next", started |-> 0,
                  tasks |-> [i \in 1..Len(cargo_locks) |-> "unspawned"]]
    /\ LoadIdle /\ SelIdle /\ GenIdle /\ UnitIdle /\ TimeIdle /\ InputIdle /\ CatalogIdle

\* The closure of try_for_each runs for the next directory: spawn_blocking
\* hands generate_cargo_lock to the blocking pool and the future awaits it.
StartNext ==
    /\ MayStart(lockgen)
    /\ lockgen.started < Len(cargo_locks)
    /\ lockgen' = [lockgen EXCEPT !.pc = "awaiting", !.started = @ + 1,
                                  !.tasks[lockgen.started + 1] = "running"]
    /\ UNCHANGED cargo_locks
    /\ LockFrame

\* A blocking task ends, on its own thread.
TaskEnds ==
    /\ \E i \in 1..Len(cargo_locks), outcome \in TaskOutcomes :
          /\ lockgen.tasks[i] = "running"
          /\ lockgen' = [lockgen EXCEPT !.tasks[i] = outcome]
    /\ UNCHANGED cargo_locks
    /\ LockFrame

\* The awaited JoinHandle is ready: Ok lets try_for_each go on, an Err or a
\* JoinError ends it.
Join ==
    /\ lockgen.pc = "awaiting"
    /\ lockgen.tasks[lockgen.started] # "running"
    /\ lockgen' = [lockgen EXCEPT !.pc = IF lockgen.tasks[lockgen.started] = "ok"
                                         THEN "next" ELSE "failed"]
    /\ UNCHANGED cargo_locks
    /\ LockFrame

\* The stream is exhausted: generate_cargo_locks returns Ok.
LocksDone ==
    /\ lockgen.pc = "next"
    /\ lockgen.started = Len(cargo_locks)
    /\ lockgen' = [lockgen EXCEPT !.pc = "done"]
    /\ UNCHANGED cargo_locks
    /\ LockFrame

LockNext == StartNext \/ TaskEnds \/ Join \/ LocksDone

(***************************************************************************)
(* cargo_generator/generation.rs: the rules of one Cargo.toml              *)
(***************************************************************************)
MaxManifests == 3

\* The rules of a directory that may map into one Cargo.toml, with their types.
UnitRuleTypes ==
    ("foo_lib" :> "RustLibrary") @@ ("bar_lib" :> "RustLibrary") @@ ("baz_lib" :> "RustLibrary")
    @@ ("foo" :> "RustBinary") @@ ("foo_test" :> "RustUnittest")

\* autocargo.cargo_toml_config of a rule: absent, or the dependencies_override
\* of its dependencies section, key -> the version it sets.
CargoTomlConfigs ==
    {None, Some(EmptyMap), Some("serde" :> "1"), Some("serde" :> "2"), Some("clap" :> "1")}

UnitManifest(name, config) ==
    [name |-> name, fbconfig_rule_type |-> UnitRuleTypes[name], cargo_toml_config |-> config]

\* An anyhow error: which ensure! failed, and the rule names and the dependency
\* keys its message holds.
InputErr(which, names, keys) ==
    [status |-> "Err", value |-> [ensure |-> which, names |-> names, keys |-> keys]]

WithConfig(ms) == {m \in ms : m.cargo_toml_config # None}

Libraries(ms) == {m \in ms : m.fbconfig_rule_type = "RustLibrary"}

\* A check of the configs that lets through the ones that set no key differently.
ConfigsAgree(with) ==
    \A m1, m2 \in with :
        \A key \in DOMAIN m1.cargo_toml_config[1] \cap DOMAIN m2.cargo_toml_config[1] :
            m1.cargo_toml_config[1][key] = m2.cargo_toml_config[1][key]

\* ensure!(names.len() < 2, ..)
ConfigsOk(with) == Cardinality(with) < 2

\* A check of the library rules that lets two of them through.
LibsFit(libs) == Cardinality(libs) < 3

\* ensure!(libs.len() < 2, ..)
LibsOk(libs) == Cardinality(libs) < 2

\* GenerationInput::new with lib as the library that find() meets first: the
\* three ensure! in their order, then the split by rule type.
GenerationInput(ms, lib) ==
    LET with == WithConfig(ms)
        libs == Libraries(ms)
    IN IF ~ConfigsOk(with)
       THEN InputErr("only one of them might define autocargo.cargo_toml_config",
                     {m.name : m \in with}, {})
       ELSE IF with # {} /\ lib # None /\ lib[1].cargo_toml_config = None
       THEN InputErr("only that rule is permitted to define autocargo.cargo_toml_config",
                     {m.name : m \in with} \cup {lib[1].name}, {})
       ELSE IF ~LibsOk(libs)
       THEN InputErr("there can be at most one rust_library rule", {m.name : m \in libs}, {})
       ELSE Ok([cargo_toml_config |-> IF with = {} THEN EmptyMap
                                      ELSE (CHOOSE m \in with : TRUE).cargo_toml_config[1],
                lib |-> {m.name : m \in libs},
                bins |-> {m.name : m \in {x \in ms : x.fbconfig_rule_type = "RustBinary"}},
                tests |-> {m.name : m \in {x \in ms : x.fbconfig_rule_type = "RustUnittest"}}])

InputInit ==
    /\ \E names \in AtMost(DOMAIN UnitRuleTypes, MaxManifests) :
          \E config \in [names -> CargoTomlConfigs] :
              manifests = {UnitManifest(n, config[n]) : n \in names}
    /\ geninput = NotRun
    /\ LoadIdle /\ SelIdle /\ GenIdle /\ UnitIdle /\ TimeIdle /\ LockIdle /\ CatalogIdle

\* GenerationInput::new over the manifests, in the order they come in: the
\* library that find() returns is any of the unit's libraries.
GenerationInput_new ==
    /\ geninput = NotRun
    /\ \E lib \in IF Libraries(manifests) = {} THEN {None}
                   ELSE {Some(m) : m \in Libraries(manifests)} :
          geninput' = GenerationInput(manifests, lib)
    /\ UNCHANGED manifests
    /\ InputFrame

InputNext == GenerationInput_new

(***************************************************************************)
(* config.rs: validate_projects                                            *)
(***************************************************************************)
MaxConfigs == 2

\* The project files read: proj1 and proj2 as the test has them, with the
\* dependencies and the cargo_locks a file may declare; proj3 has no file.
ReadConfigs ==
    {ProjectConf(name, deps) @@ [cargo_locks |-> locks] :
        name \in {"proj1", "proj2"},
        deps \in {{}, {"proj1"}, {"proj2"}, {"proj3"}, {"proj1", "proj3"}},
        locks \in {{}, {"a"}, {"b"}}}

\* The first loop: a name inserted twice.
NotUnique(cs) == \E i, j \in 1..Len(cs) : i < j /\ cs[i].name = cs[j].name

\* A validation that does not look at the dependencies.
InvalidLocksOnly(all, conf) ==
    IF \E lock_path \in conf.cargo_locks : ~covers_path(conf, lock_path)
    THEN "cargo_lock path is not contained in project"
    ELSE "valid"

\* What the second loop finds wrong with a project, dependencies first.
Invalid(all, conf) ==
    IF \E dep \in conf.dependencies : dep \notin DOMAIN all THEN "Dependency does not exists"
    ELSE IF \E lock_path \in conf.cargo_locks : ~covers_path(conf, lock_path)
    THEN "cargo_lock path is not contained in project"
    ELSE "valid"

\* validate_projects: the results it can return, as the iteration over the
\* values of the HashMap meets an invalid project first or another
validate_projects(cs) ==
    IF NotUnique(cs) THEN {[status |-> "Err", value |-> "The names of projects are not unique"]}
    ELSE LET all == [n \in {cs[i].name : i \in 1..Len(cs)} |->
                        CHOOSE c \in {cs[i] : i \in 1..Len(cs)} : c.name = n]
             errors == {Invalid(all, all[n]) : n \in DOMAIN all} \ {"valid"}
         IN IF errors = {} THEN {Ok(all)}
            ELSE {[status |-> "Err", value |-> e] : e \in errors}

CatalogInit ==
    /\ \E n \in 0..MaxConfigs : configs \in [1..n -> ReadConfigs]
    /\ catalog = NotRun
    /\ LoadIdle /\ SelIdle /\ GenIdle /\ UnitIdle /\ TimeIdle /\ LockIdle /\ InputIdle

\* AllProjects::new: the catalog is validated once the project files are read.
ValidateProjects ==
    /\ catalog = NotRun
    /\ catalog' \in validate_projects(configs)
    /\ UNCHANGED configs
    /\ CatalogFrame

CatalogNext == ValidateProjects

(***************************************************************************)
(* Specifications                                                          *)
(***************************************************************************)
Init ==
    /\ LoadInit /\ buck = HonestBuck
    /\ SelIdle /\ GenIdle /\ UnitIdle /\ TimeIdle /\ LockIdle /\ InputIdle /\ CatalogIdle

Next == LoadNext

\* process_targets
Spec == Init /\ [][Next]_vars

\* select_based_on_paths_and_names
SelectInit == SelInit /\ LoadIdle /\ GenIdle /\ UnitIdle /\ TimeIdle /\ LockIdle /\ InputIdle /\ CatalogIdle

SelectSpec == SelectInit /\ [][SelNext]_vars

\* DependenciesGenerator::generate
GenSpec == GenInit /\ [][GenNext]_vars

\* DependenciesGenerator::generate, over the field overrides of one key
OverrideSpec == OverrideInit /\ [][GenNext]_vars

\* The generation of one unit, twice
UnitSpec == UnitInit /\ [][UnitNext]_vars

\* future_soft_timeout around one call
TimeoutSpec == TimeInit /\ [][TimeNext]_vars

LockSpec == LockInit /\ [][LockNext]_vars

InputSpec == InputInit /\ [][InputNext]_vars

\* The selection is one sequential call: it goes on as long as it can.
SelectFairSpec == SelectInit /\ [][SelNext]_vars /\ WF_vars(SelNext)

CatalogSpec == CatalogInit /\ [][CatalogNext]_vars

\* process_targets, whatever the command behind the command runner prints
OracleInit ==
    /\ LoadInit /\ buck \in BuckAnswers
    /\ SelIdle /\ GenIdle /\ UnitIdle /\ TimeIdle /\ LockIdle /\ InputIdle /\ CatalogIdle

OracleSpec == OracleInit /\ [][Next]_vars

(***************************************************************************)
(* Properties of the loader and the resolver                               *)
(***************************************************************************)
ManifestCommands == {"buck query manifests", "buck build manifest rules"}

\* Something went wrong in the manifest batch of a phase: a command did not end
\* well, or an artifact does not parse or carries another rule's name.
BatchFaulty(ph) ==
    \/ \E i \in 1..Len(calls) :
          calls[i].phase = ph /\ calls[i].cmd \in ManifestCommands /\ calls[i].outcome # "ok"
    \/ \E m \in DOMAIN artifacts[ph] :
          \/ ~artifacts[ph][m].parses
          \/ artifacts[ph][m].raw.name # FbcodeRuleOfManifestRule(m).name

\* C1: a manifest batch is all-or-nothing.  If a query or build command of the
\* batch fails, or an artifact fails to parse or declares another name than its
\* rule's, load returns no map at all and process_targets returns no output; a
\* returned map holds a manifest for every rule the build produced an artifact for.
C1_AllOrNothing ==
    \A ph \in {1, 2} :
        /\ BatchFaulty(ph) =>
              /\ loadResult[ph].status # "Ok"
              /\ output.status # "Ok"
              /\ allRaw = EmptyMap
              /\ pc \notin {"cratemap", "process", "done"}
        /\ loadResult[ph].status = "Ok" =>
              /\ DOMAIN loadResult[ph].value =
                    {FbcodeRuleOfManifestRule(m) : m \in DOMAIN artifacts[ph]}
              /\ \A r \in DOMAIN loadResult[ph].value : loadResult[ph].value[r].name = r.name

\* A batch of the requested rules with a good artifact and a bad one has failed.
C1_Witness ==
    /\ pc = "failed"
    /\ loadResult[1].status = "Err"
    /\ \E m1, m2 \in DOMAIN artifacts[1] :
          /\ ParseArtifact(m1, artifacts[1][m1]).status = "Ok"
          /\ artifacts[1][m2].parses
          /\ ParseArtifact(m2, artifacts[1][m2]).status = "Err"

RunsOf(method, ph) == {i \in 1..Len(runs) : runs[i].method = method /\ runs[i].phase = ph}

\* The rules the requested manifests reference and that are not requested themselves.
ReferencedUnknown == ExtractDependencies(builders) \ DOMAIN builders

\* C2: once the requested manifests are resolved and some referenced rule is
\* unknown, from_rust_buck_rules has run exactly once, over exactly the
\* referenced-but-unknown rules, followed by exactly one load of the manifest rules
\* found for them; nothing reachable only through a manifest loaded in that step is
\* ever discovered or loaded.
C2_OneHopOnce ==
    /\ Cardinality(RunsOf("from_rust_buck_rules", 2)) <= 1
    /\ Cardinality(RunsOf("load", 2)) <= 1
    /\ (pc \in {"merge", "cratemap", "process", "done"} /\ ReferencedUnknown # {}) =>
          /\ Cardinality(RunsOf("from_rust_buck_rules", 2)) = 1
          /\ Cardinality(RunsOf("load", 2)) = 1
          /\ \A i \in RunsOf("from_rust_buck_rules", 2) :
                /\ runs[i].rules = ReferencedUnknown
                /\ \A j \in RunsOf("load", 2) :
                      /\ i < j
                      /\ runs[j].rules \subseteq {BuckManifestRule(r) : r \in ReferencedUnknown}
          /\ DOMAIN loadResult[2].value \subseteq ReferencedUnknown
          /\ DOMAIN allRaw \subseteq DOMAIN builders \cup ReferencedUnknown

\* Rule b was loaded as a missing rule, its manifest references rule c, and c is in
\* no map at the end of the run.
C2_Witness ==
    /\ pc = "done"
    /\ RuleB \in DOMAIN allRaw
    /\ RuleB \notin DOMAIN builders
    /\ RuleC \in BuilderDependencies(BuckManifestBuilder(allRaw[RuleB][2]))
    /\ RuleC \notin DOMAIN allRaw

CallsOf(cmd, ph) == {i \in 1..Len(calls) : calls[i].cmd = cmd /\ calls[i].phase = ph}

\* C3 as stated: a whole run performs at most two oracle round-trips.
C3_AtMostTwoRoundTrips == Len(calls) <= 2

\* C3 amended: a whole run hands at most five commands to the oracle: for the
\* requested TARGETS one query and one build of manifests, for the missing rules one
\* query and one build of manifests, and one build of cratemaps, whatever the number
\* of rules.
C3_AtMostFiveCommands ==
    /\ \A ph \in {1, 2} : \A cmd \in ManifestCommands : Cardinality(CallsOf(cmd, ph)) <= 1
    /\ Cardinality(CallsOf("buck build thrift cratemaps", 1)) = 0
    /\ Cardinality(CallsOf("buck build thrift cratemaps", 2)) <= 1
    /\ \A i \in 1..Len(calls) : calls[i].cmd \in ManifestCommands \cup {"buck build thrift cratemaps"}

\* A run that ended well after all five commands.
C3_Witness == pc = "done" /\ Len(calls) = 5 /\ Cardinality(DOMAIN builders) >= 2

(***************************************************************************)
(* Properties of the project selection                                     *)
(***************************************************************************)
SelectedSet == IF selected.status = "Ok"
               THEN {selected.value[i] : i \in DOMAIN selected.value} ELSE {}

DependsOn(n, m) == m \in projects[n].dependencies

\* The least set that holds base and every project depending on one it holds.
ReverseClosure(base) ==
    {x \in DOMAIN projects :
        \A S \in SUBSET DOMAIN projects :
            (/\ base \subseteq S
             /\ \A n \in DOMAIN projects : (\E m \in S : DependsOn(n, m)) => n \in S)
            => x \in S}

\* The least set that holds base and every dependency of a project it holds.
ForwardClosure(base) ==
    {x \in DOMAIN projects :
        \A S \in SUBSET DOMAIN projects :
            (/\ base \subseteq S
             /\ \A n \in S : projects[n].dependencies \subseteq S)
            => x \in S}

Covering == {n \in DOMAIN projects : \E p \in selPaths : covers_path(projects[n], p)}

\* The catalog A, B(deps A), C(deps B) as proj1, proj2, proj3.
ChainCatalog ==
    /\ projects["proj1"].dependencies = {}
    /\ projects["proj2"].dependencies = {"proj1"}
    /\ projects["proj3"].dependencies = {"proj2"}
    /\ projects["proj4"].dependencies = {}

\* C4: a selection by paths returns the projects covering a path and every project
\* that depends on one of them directly or through a chain of dependencies (the
\* least fixpoint of the reverse-dependency relation), and nothing else when no
\* name is given; with proj1, proj2(deps proj1), proj3(deps proj2) and the path
\* only proj1 covers, the result is proj1, proj2, proj3.
C4_ReverseClosure ==
    /\ selPc \in {"names", "forward", "union", "done", "error"}
          => selected_by_path = ReverseClosure(Covering)
    /\ selPc = "done"
          => /\ ReverseClosure(Covering) \subseteq SelectedSet
             /\ selNames = {} => SelectedSet = ReverseClosure(Covering)
             /\ (ChainCatalog /\ selPaths = {"a"} /\ selNames = {})
                   => selected = Ok(<<"proj1", "proj2", "proj3">>)

C4_Witness ==
    /\ selPc = "done"
    /\ ChainCatalog /\ selPaths = {"a"} /\ selNames = {}
    /\ Covering = {"proj1"}
    /\ SelectedSet = {"proj1", "proj2", "proj3"}

\* C5: a selection by names returns the requested projects and every project they
\* depend on directly or transitively (the least fixpoint of the forward-dependency
\* relation), and nothing else when no path is given; with proj1, proj2(deps proj1),
\* proj3(deps proj2), the name proj3 and no path give proj1, proj2, proj3.
C5_ForwardClosure ==
    /\ selPc \in {"union", "done"} => selected_by_name = ForwardClosure(selNames)
    /\ selPc = "done"
          => /\ ForwardClosure(selNames) \subseteq SelectedSet
             /\ selPaths = {} => SelectedSet = ForwardClosure(selNames)
             /\ (ChainCatalog /\ selPaths = {} /\ selNames = {"proj3"})
                   => selected = Ok(<<"proj1", "proj2", "proj3">>)

C5_Witness ==
    /\ selPc = "done"
    /\ ChainCatalog /\ selPaths = {} /\ selNames = {"proj3"}
    /\ SelectedSet = {"proj1", "proj2", "proj3"}

\* C6: the returned selection is exactly the union of the reverse closure of the
\* projects covering a path and the forward closure of the requested names.
C6_UnionOfClosures ==
    selPc = "done"
       => SelectedSet = ReverseClosure(Covering) \cup ForwardClosure(selNames)

\* A path and a name are both given, a dependency of a path-selected project stays
\* out and so does a dependent of a name-selected one.
C6_Witness ==
    /\ selPc = "done"
    /\ selPaths # {} /\ selNames # {}
    /\ \E n \in DOMAIN projects \ SelectedSet :
          \E m \in ReverseClosure(Covering) : DependsOn(m, n)
    /\ \E n \in DOMAIN projects \ SelectedSet :
          \E m \in ForwardClosure(selNames) : DependsOn(n, m)
    /\ ReverseClosure(Covering) \ ForwardClosure(selNames) # {}
    /\ ForwardClosure(selNames) \ ReverseClosure(Covering) # {}

(***************************************************************************)
(* Properties of the dependency sections                                   *)
(***************************************************************************)
\* The edges of a section that resolve to an entry, with the entry.
Resolved(sec) ==
    {LET c == Contribution(cfg, edges[sec], e).value[1]
     IN [edge |-> e, key |-> c.key, dep |-> c.dep] :
        e \in {y \in edges[sec] : LET c == Contribution(cfg, edges[sec], y)
                                  IN c.status = "Ok" /\ c.value # None}}

\* An edge of the section names a crate the third-party catalog lacks.
Unresolvable(sec) == \E e \in edges[sec] : Contribution(cfg, edges[sec], e).status = "Err"

Conflicting(sec) == \E x, y \in Resolved(sec) : x.key = y.key /\ x.dep # y.dep

\* compute has returned for the section, with a set or with an error.
Returned(sec) == computed[sec].status = "Ok" \/ (gpc = "failed" /\ section = sec)

\* C7: two edges of a section that resolve to the same key with different values
\* make the generation fail; edges that resolve to the same key with the same
\* value are accepted, and the key is in the section once, with that value.
C7_ConflictPolicy ==
    \A sec \in DOMAIN Sections :
        /\ (Returned(sec) /\ Conflicting(sec))
              => gpc = "failed" /\ section = sec /\ result[sec] = Err
        /\ (Returned(sec) /\ ~Conflicting(sec) /\ ~Unresolvable(sec))
              => /\ computed[sec].status = "Ok"
                 /\ DOMAIN computed[sec].value
                       = {x.key : x \in Resolved(sec)} \cup DOMAIN overrides[sec]
                 /\ \A x \in Resolved(sec) :
                       computed[sec].value[x.key]
                          = apply_override(cfg, x.key, x.dep,
                                           IF x.key \in DOMAIN overrides[sec]
                                           THEN overrides[sec][x.key] ELSE DefaultOverride)
        /\ (gpc = "compute" /\ section = sec)
              => \A k \in DOMAIN deps_set :
                    \E x \in Resolved(sec) : x.key = k /\ x.dep = deps_set[k]

\* Two edges with the same key and value were accepted, then a third with the
\* same key and another value stopped the generation.
C7_Witness ==
    /\ gpc = "failed"
    /\ ~Unresolvable(section)
    /\ \E x, y \in Resolved(section) :
          /\ x.edge # y.edge /\ x.key = y.key /\ x.dep = y.dep
          /\ x.edge \notin todo /\ y.edge \notin todo
          /\ x.key \in DOMAIN deps_set
          /\ \E z \in Resolved(section) : z.edge \in todo /\ z.key = x.key /\ z.dep # x.dep

\* The edge resolves to an entry, removal aside.
Resolvable(e) ==
    LET r == ResolveTarget(cfg, e.alias, e.target) IN r.status = "Ok" /\ r.value # None

\* The key and the value of the entry the edge resolves to, removal aside.
EdgeKey(e) ==
    IF e.alias # None THEN e.alias[1] ELSE ResolveTarget(cfg, e.alias, e.target).value[1].name

EdgeDep(e) == ResolveTarget(cfg, e.alias, e.target).value[1].dep

OverrideOf(sec, key) ==
    IF key \in DOMAIN overrides[sec] THEN overrides[sec][key] ELSE DefaultOverride

\* In the section, the base edge old is removed and its target is added again
\* under another key by the edge add; no other edge adds the target, no other
\* edge resolves to the old key and no field override names it.
Renamed(sec, old, add) ==
    /\ old \in edges[sec] /\ add \in edges[sec]
    /\ old.src \in {"deps", "named_deps"}
    /\ add.src = "NamedDep" /\ add.target = old.target
    /\ Edge("RemovedDep", None, old.target) \in edges[sec]
    /\ Resolvable(old)
    /\ EdgeKey(add) # EdgeKey(old)
    /\ \A e \in edges[sec] :
          (e.target = old.target /\ e.src \in {"Dep", "NamedDep"}) => e = add
    /\ \A e \in edges[sec] \ {old} :
          (e.src # "RemovedDep" /\ Resolvable(e)) => EdgeKey(e) # EdgeKey(old)
    /\ EdgeKey(old) \notin DOMAIN overrides[sec]

\* C8: when an edge is removed by a remove override and its target added again
\* under the alias Y by an add-named override of the same list, the section has the
\* target once, under Y, and nothing under the old key: the removal filters the
\* base edges only and the adds are not filtered.
C8_OverrideRename ==
    \A sec \in DOMAIN Sections :
        computed[sec].status = "Ok" =>
            \A old, add \in edges[sec] :
                Renamed(sec, old, add) =>
                    /\ EdgeKey(old) \notin DOMAIN computed[sec].value
                    /\ EdgeKey(add) \in DOMAIN computed[sec].value
                    /\ computed[sec].value[EdgeKey(add)]
                          = apply_override(cfg, EdgeKey(add), EdgeDep(add),
                                           OverrideOf(sec, EdgeKey(add)))
                    /\ \A k \in DOMAIN computed[sec].value \ {EdgeKey(add)} :
                          \/ k \in DOMAIN overrides[sec]
                          \/ \E e \in edges[sec] :
                                /\ e.target # old.target /\ e.src # "RemovedDep"
                                /\ Resolvable(e) /\ EdgeKey(e) = k

\* serde is a dependency, it is removed and added again as renamed.
C8_Witness ==
    /\ gpc = "done"
    /\ Renamed(1, Edge("deps", None, ThirdPartyCrate("serde")),
               Edge("NamedDep", Some("renamed"), ThirdPartyCrate("serde")))
    /\ DOMAIN result[1].value = {"renamed"}
    /\ dependency_to_dependency_detail(result[1].value["renamed"]).package = Some("serde")

\* The entry of the key before the overrides: what the edges resolved to, or an
\* empty detail for a key only the override map names.
Derived(sec, key) ==
    IF \E x \in Resolved(sec) : x.key = key
    THEN (CHOOSE x \in Resolved(sec) : x.key = key).dep
    ELSE Detailed(DefaultDetail)

\* What the rule says about the field of the key: a text, or nothing.
Stated(sec, key, field) ==
    IF key \in DOMAIN raw_overrides[sec] /\ field \in DOMAIN raw_overrides[sec][key]
    THEN Some(raw_overrides[sec][key][field]) ELSE None

\* The three states: nothing stated leaves the value, null removes the field, a
\* value replaces it.
TriState(field, stated, before, after) ==
    CASE stated = None -> after = before
      [] stated = Some("null") -> after = DefaultDetail[field]
      [] stated = Some("string") -> after = Some("set")
      [] stated = Some("[]") -> after = <<>>
      [] stated = Some("[f]") -> after = <<"f">>
      [] stated = Some("false") -> after = FALSE
      [] OTHER -> after = TRUE

\* The two states of a plain optional: nothing stated and null leave the value, a
\* value replaces it.
TwoState(field, stated, before, after) ==
    IF stated = Some("null") THEN after = before ELSE TriState(field, stated, before, after)

FieldBefore(key, field) == dependency_to_dependency_detail(Derived(1, key))[field]

FieldAfter(key, field) == dependency_to_dependency_detail(computed[1].value[key])[field]

\* C9 as stated: for every overridable field of every entry, inherit leaves the
\* derived value, explicit-clear removes the field and explicit-set replaces it.
C9_EveryFieldTriState ==
    (computed[1].status = "Ok" /\ ~Conflicting(1)) =>
        \A key \in DOMAIN computed[1].value :
            \A f \in DOMAIN DefaultOverride :
                TriState(f, Stated(1, key, f), FieldBefore(key, f), FieldAfter(key, f))

\* C9: for version, registry, registry_index, path, git, branch, tag, rev and
\* package the override of a field leaves the derived value (inherit), removes it
\* (explicit-clear) or replaces it (explicit-set); features, optional and
\* default_features have inherit and explicit-set only, null being inherit; and
\* the version of the entry keyed cxx-build is the version of the third-party
\* crate cxx whenever the catalog has it, whatever the override says.
C9_TriStateOverrides ==
    (computed[1].status = "Ok" /\ ~Conflicting(1)) =>
        \A key \in DOMAIN computed[1].value :
            \A f \in DOMAIN DefaultOverride :
                IF key = "cxx-build" /\ f = "version"
                   /\ "cxx" \in DOMAIN third_party_crates(cfg.cxx)
                THEN FieldAfter(key, f) = Some(third_party_crates(cfg.cxx)["cxx"].version)
                ELSE IF f \in StringFields
                     THEN TriState(f, Stated(1, key, f), FieldBefore(key, f), FieldAfter(key, f))
                     ELSE TwoState(f, Stated(1, key, f), FieldBefore(key, f), FieldAfter(key, f))

\* The alias renamed of serde carries the package name, and the override of the
\* key clears it.
C9_Witness ==
    /\ gpc = "done"
    /\ "renamed" \in DOMAIN result[1].value
    /\ dependency_to_dependency_detail(Derived(1, "renamed")).package = Some("serde")
    /\ Stated(1, "renamed", "package") = Some("null")
    /\ result[1].value["renamed"] = Simple("1.0")

\* C10: after the overrides, an entry with the same key and value in the
\* dependencies and in the dev-dependencies is left out of the dev-dependencies;
\* an entry whose key is in both with different values stays in both.
C10_DevDeduplication ==
    result[2].status = "Ok" =>
        LET base == result[1].value
            dev_computed == computed[2].value
            dev == result[2].value
        IN /\ DOMAIN dev \subseteq DOMAIN dev_computed
           /\ \A k \in DOMAIN dev_computed :
                 /\ (k \in DOMAIN base /\ base[k] = dev_computed[k]) => k \notin DOMAIN dev
                 /\ (k \in DOMAIN base /\ base[k] # dev_computed[k])
                       => k \in DOMAIN dev /\ dev[k] = dev_computed[k]
                 /\ k \notin DOMAIN base => k \in DOMAIN dev /\ dev[k] = dev_computed[k]

\* serde is a dependency and a test dependency, and the dev-dependencies override
\* its version.
C10_Witness ==
    /\ gpc = "done"
    /\ result[1].value = [k \in {"serde"} |-> Simple("1.0")]
    /\ result[2].value = [k \in {"serde"} |-> Simple("set")]
    /\ Edge("deps", None, ThirdPartyCrate("serde")) \in edges[1] \cap edges[2]

(***************************************************************************)
(* Properties of the consolidation of one unit                             *)
(***************************************************************************)
\* The rules of the unit.
UnitRules == {FbcodeBuckRule("du", n) : n \in local_rules}

\* An entry of a generated section is a dependency on the rule: it has the rule's
\* name as its package and the place of the rule's Cargo.toml, or the repository
\* of the rule's project, as its source.
PointsAt(sec, rule) ==
    /\ result[sec].status = "Ok"
    /\ \E key \in DOMAIN result[sec].value :
          LET d == dependency_to_dependency_detail(result[sec].value[key]) IN
          /\ (IF d.package # None THEN d.package[1] ELSE key) = rule.name
          /\ \/ d.path = Some(RelativePath(rule.path))
             \/ d.git # None /\ d.git = to_oss_git(cfg, rule.path)

\* The rules a section's add overrides name.
AddedRules(sec) ==
    {x.edge.target.rule :
        x \in {y \in unit : y.input = "extra" /\ y.section = sec
                                /\ y.edge.src \in {"Dep", "NamedDep"}}}

\* C11 as stated: no rule of the unit (its library, binaries or tests) appears in
\* any dependency section generated for the unit.
C11_NoOwnRuleInAnySection ==
    \A sec \in DOMAIN Sections : \A rule \in UnitRules : ~PointsAt(sec, rule)

\* C11, amended: the consolidated dependencies of a unit never hold a rule of the
\* unit, so a dependency of one of its rules on another (a test on the library)
\* produces no entry; a section has an entry pointing at the unit itself only when
\* an add override of the section names a rule of the unit.
C11_NoOwnRuleConsolidated ==
    \A sec \in DOMAIN Sections :
        /\ \A e \in edges[sec] :
              e.src \in {"deps", "named_deps"} /\ e.target.kind = "FbcodeCrate"
                  => e.target.rule \notin UnitRules
        /\ \A rule \in UnitRules \ AddedRules(sec) : ~PointsAt(sec, rule)

\* The test depends on the library of its unit and the library's tests on rule a:
\* the dev-dependencies hold a and not the unit.
C11_Witness ==
    /\ gpc = "done"
    /\ UnitDep("test", "deps", None, FbcodeCrate(RuleU)) \in unit
    /\ PointsAt(2, RuleA)
    /\ ~PointsAt(2, RuleU)

\* The description has a version and every other field at its default.
PlainVersion(d) ==
    /\ d.version # None
    /\ d.registry = None /\ d.registry_index = None /\ d.path = None /\ ~d.inherited
    /\ d.git = None /\ d.branch = None /\ d.tag = None /\ d.rev = None
    /\ d.features = <<>> /\ ~d.optional /\ d.default_features /\ d.package = None

\* C12: every entry of a generated dependency set whose description has a version
\* and every other field at its default is in the terse version-only form,
\* wherever it came from: the catalog, an internal rule, an add override or a
\* field-level override.
C12_Normalized ==
    \A sec \in DOMAIN Sections :
        result[sec].status = "Ok" =>
            \A key \in DOMAIN result[sec].value :
                LET dep == result[sec].value[key] IN
                /\ dep.kind = "Detailed" => ~PlainVersion(dep.detail)
                /\ computed[sec].value[key].kind = "Detailed"
                      => ~PlainVersion(computed[sec].value[key].detail)

\* A field-level override gives a version to a key no edge produced, which starts
\* from a detailed description; an alias equal to the package name and a catalog
\* entry come out terse as well, next to an entry that stays detailed.
C12_Witness ==
    /\ gpc = "done"
    /\ "extra" \in DOMAIN overrides[2]
    /\ "extra" \in DOMAIN result[2].value
    /\ result[2].value["extra"] = Simple("set")
    /\ \E key \in DOMAIN result[1].value : result[1].value[key].kind = "Detailed"

\* C13: the generated output is a function of the input only, whatever the order
\* in which the unordered maps and sets are iterated: the run that follows a run
\* over unchanged input generates the same dependency entries, or fails as the
\* first did.
C13_SameOutputTwice ==
    (run = 2 /\ gpc \in {"done", "failed"}) => result = previous

(***************************************************************************)
(* Properties of the soft timeout                                          *)
(***************************************************************************)
Logged(callback) == {i \in 1..Len(warnings) : warnings[i].callback = callback}

\* C14: the soft timeout never cancels or alters the wrapped call.  The wrapper
\* returns only once the wrapped call has completed, and what it returns is that
\* call's output, however far past the threshold the call runs.
C14_NeverCancels ==
    /\ wrapper.pc = "returned" => call.ready /\ wrapper.output = call.output
    /\ wrapper.pc = "select" => wrapper.output = "none"

\* The call ran for two ticks past the threshold, the first warning was given, and
\* the wrapper returned the call's error.
C14_Witness ==
    /\ wrapper.pc = "returned"
    /\ wrapper.at >= soft_timeout_at + 2
    /\ Logged("after_soft_timeout") # {}
    /\ wrapper.output = "Err"

\* C15: if the call is still running when the threshold elapses the first warning
\* is logged exactly once; if it completes after the threshold the second
\* warning is logged exactly once, at completion; if it completes before the
\* threshold neither is logged.  The call completes when the wrapper's poll of
\* it returns its output.
C15_Warnings ==
    /\ Cardinality(Logged("after_soft_timeout")) <= 1
    /\ Cardinality(Logged("at_end_if_timedout")) <= 1
    /\ wrapper.pc = "returned" =>
          /\ wrapper.at > soft_timeout_at =>
                /\ Cardinality(Logged("after_soft_timeout")) = 1
                /\ Cardinality(Logged("at_end_if_timedout")) = 1
                /\ \A i \in Logged("at_end_if_timedout") : warnings[i].at = wrapper.at
          /\ wrapper.at < soft_timeout_at => warnings = <<>>

(***************************************************************************)
(* Properties of the lock-file regeneration                                *)
(***************************************************************************)
Running == {i \in 1..Len(cargo_locks) : lockgen.tasks[i] = "running"}

\* C16: the regeneration of the lock files is strictly serialized: at most one
\* directory's regeneration is in progress at any moment, and a directory's
\* regeneration has started only if that of every directory before it finished
\* (with Ok); once generate_cargo_locks has returned none is in progress.
C16_Serialized ==
    /\ Cardinality(Running) <= 1
    /\ \A i \in 1..Len(cargo_locks) :
          lockgen.tasks[i] # "unspawned" =>
              \A j \in 1..(i - 1) : lockgen.tasks[j] = "ok"
    /\ lockgen.pc \in {"done", "failed"} => Running = {}

\* The third directory is being regenerated after the first two finished.
C16_Witness ==
    /\ Len(cargo_locks) = 3
    /\ lockgen.tasks[3] = "running"
    /\ lockgen.tasks[1] = "ok" /\ lockgen.tasks[2] = "ok"

(***************************************************************************)
(* Properties of the cover of a path                                       *)
(***************************************************************************)
Included(n, p) == \E pattern \in projects[n].include_globs : matches_path(pattern, p)

Excluded(n, p) == \E pattern \in projects[n].exclude_globs : matches_path(pattern, p)

UnderRoot(n, p) == \E root \in projects[n].roots : starts_with(p, root)

UnderPublicDir(n, p) == \E dir \in projects[n].public_cargo_dir : starts_with(p, dir)

\* The first filter of the selection has just run: selected_by_path holds the
\* projects that cover one of the paths, and nothing else yet.
JustCovered == selPc = "reverse" /\ to_process = selected_by_path

\* C17 as stated: a project covers a path exactly when the path matches one of
\* its include globs and none of its exclude globs.
C17_IncludeAndNotExclude ==
    JustCovered =>
        selected_by_path =
            {n \in DOMAIN projects : \E p \in selPaths : Included(n, p) /\ ~Excluded(n, p)}

\* C17: a project covers a path exactly when the path matches none of its exclude
\* globs and matches one of its include globs, or lies under one of its roots, or
\* lies under the public_cargo_dir of its oss_git_config; a path matched by an
\* exclude glob is never covered, whatever else matches it.
C17_Covers ==
    JustCovered =>
        /\ selected_by_path =
              {n \in DOMAIN projects :
                  \E p \in selPaths : /\ ~Excluded(n, p)
                                      /\ \/ Included(n, p)
                                         \/ UnderRoot(n, p)
                                         \/ UnderPublicDir(n, p)}
        /\ \A n \in DOMAIN projects :
              (\A p \in selPaths : Excluded(n, p)) => n \notin selected_by_path

\* The path b took proj2, whose include glob matches it, and proj4, which has no
\* include glob and has b as a root; proj3, which excludes what it includes, was
\* left out.
C17_Witness ==
    /\ JustCovered
    /\ selPaths = {"b"}
    /\ ~Included("proj4", "b") /\ UnderRoot("proj4", "b")
    /\ Included("proj3", "a") /\ Excluded("proj3", "a")
    /\ selected_by_path = {"proj2", "proj4"}

(***************************************************************************)
(* Properties of the acceptance of internal edges                          *)
(***************************************************************************)
\* C18: no rule flagged as ignored and no rule that is not a library appears as
\* an internal dependency in any dependency section generated for a unit.
C18_NoIgnoredNoBinary ==
    \A sec \in DOMAIN Sections :
        \A rule \in {RuleI, RuleBin} : ~PointsAt(sec, rule)

(***************************************************************************)
(* Properties of the classification of edges                               *)
(***************************************************************************)
\* The deps of the processed manifest of r hold an internal edge for the raw
\* reference d, carrying the manifest and the TARGETS directory of d's rule.
ResolvedIn(r, d) ==
    \E e \in output.value.processed_manifests[r].deps :
        /\ e.kind = "FbcodeCrate"
        /\ e.path = d.rule.path
        /\ e.raw = RepoManifest(d.rule)

\* C19 as stated: a raw reference to an internal rule resolves to None whenever
\* the rule is not a manifest-producing Rust library, and to an internal edge
\* carrying the target's manifest and directory otherwise; a third-party
\* reference always resolves to ThirdPartyCrate.
C19_OnlyRustLibraries ==
    (pc = "done" /\ output.status = "Ok") =>
        \A r \in DOMAIN builders : \A d \in builders[r].deps :
            IF d.kind = "ThirdPartyCrate"
            THEN d \in output.value.processed_manifests[r].deps
            ELSE ResolvedIn(r, d) <=>
                    (d.rule \in RustRules
                     /\ RepoManifest(d.rule).fbconfig_rule_type = "RustLibrary")

\* C19: a raw reference to an internal rule resolves to None, without failing,
\* exactly when the rule produces no rust manifest, and to an internal edge
\* carrying the target's manifest and directory when it produces one, whatever
\* the type of the rule; a third-party reference always resolves to
\* ThirdPartyCrate.
C19_ManifestProducing ==
    (pc = "done" /\ output.status = "Ok") =>
        \A r \in DOMAIN builders : \A d \in builders[r].deps :
            IF d.kind = "ThirdPartyCrate"
            THEN d \in output.value.processed_manifests[r].deps
            ELSE ResolvedIn(r, d) <=> d.rule \in RustRules

\* All three cases in one result: b's reference to o, which has a manifest and is
\* not a library, is resolved; a's reference to the non-rust rule n is dropped
\* and a's third-party reference is kept.
C19_Witness ==
    /\ pc = "done" /\ output.status = "Ok"
    /\ {RuleA, RuleB} \subseteq DOMAIN builders
    /\ RepoManifest(RuleO).fbconfig_rule_type # "RustLibrary"
    /\ ResolvedIn(RuleB, FbcodeCrate(RuleO))
    /\ FbcodeCrate(RuleN) \in builders[RuleA].deps
    /\ ~ResolvedIn(RuleA, FbcodeCrate(RuleN))
    /\ ThirdPartyCrate("serde") \in output.value.processed_manifests[RuleA].deps

(***************************************************************************)
(* Properties of the edges that leave the projects                         *)
(***************************************************************************)
\* pu, which covers du, is the selected project; the rules of the other TARGETS
\* files lie outside every selected project.
OutsideSelected == {RuleA, RuleD, RuleI, RuleBin, RuleX, FbcodeBuckRule("da", "u")}

\* The TARGETS file is covered by some project of the catalog.
CoveredByCatalog(path) == \E n \in DOMAIN AllConfigs : covers_path(AllConfigs[n], path)

\* Every input of the unit is a dependency that one of its rules declares on the
\* rule that no project covers.
OnlyUncovered ==
    /\ unit # {}
    /\ \A x \in unit : x.input = "dep" /\ x.target = FbcodeCrate(RuleX)

\* C20 as stated: an edge whose target lies outside every selected project is
\* dropped from the generated output.
C20_OutsideSelectedDropped ==
    \A sec \in DOMAIN Sections : \A rule \in OutsideSelected : ~PointsAt(sec, rule)

\* C20: a dependency that a rule of the unit declares and whose target lies
\* outside every project of the catalog, selected or not, is dropped by the
\* consolidation and never makes the run fail; a rule that no project covers has
\* an entry only when an add override names it and the manifest is not an oss
\* one.
C20_OutsideCatalogDropped ==
    /\ \A sec \in DOMAIN Sections :
          /\ \A e \in edges[sec] :
                e.src \in {"deps", "named_deps"} /\ e.target.kind = "FbcodeCrate"
                    => CoveredByCatalog(e.target.rule.path)
          /\ PointsAt(sec, RuleX) => RuleX \in AddedRules(sec) /\ ~cfg.oss
    /\ OnlyUncovered =>
          /\ gpc # "failed"
          /\ gpc = "done" => \A sec \in DOMAIN Sections : result[sec] = Ok(EmptyMap)

\* The library depends on a, which the unselected project pa covers, and on x,
\* which no project covers: the dependencies hold a and not x.
C20_Witness ==
    /\ gpc = "done"
    /\ unit = {UnitDep("lib", "deps", None, FbcodeCrate(RuleA)),
               UnitDep("lib", "deps", None, FbcodeCrate(RuleX))}
    /\ ~CoveredByCatalog("dx")
    /\ result[1].status = "Ok"
    /\ PointsAt(1, RuleA)
    /\ ~PointsAt(1, RuleX)

(***************************************************************************)
(* Properties of the build dependencies                                    *)
(***************************************************************************)
\* The consolidated dependencies among the edges of a section.
Consolidated(sec) == {e \in edges[sec] : e.src \in {"deps", "named_deps"}}

CxxVersion == dependency_to_dependency_detail(third_party_crates(cfg.cxx)["cxx"]).version

\* C22: when the third-party crate cxx resolves, the version of the entry keyed
\* cxx-build is the version of cxx in every section, computed or generated,
\* whatever the override of the key states for the version or for other fields.
C22_CxxBuildTracksCxx ==
    "cxx" \in DOMAIN third_party_crates(cfg.cxx) =>
        \A sec \in DOMAIN Sections :
            /\ (computed[sec].status = "Ok" /\ "cxx-build" \in DOMAIN computed[sec].value) =>
                  dependency_to_dependency_detail(computed[sec].value["cxx-build"]).version
                      = CxxVersion
            /\ (result[sec].status = "Ok" /\ "cxx-build" \in DOMAIN result[sec].value) =>
                  dependency_to_dependency_detail(result[sec].value["cxx-build"]).version
                      = CxxVersion

\* The override of cxx-build states a version, and the entry has the version of
\* cxx, which is neither the stated one nor the one of cxx-build in the catalog.
C22_Witness ==
    /\ gpc = "done"
    /\ "cxx" \in DOMAIN third_party_crates(cfg.cxx)
    /\ Stated(1, "cxx-build", "version") \notin {None, Some("null")}
    /\ "cxx-build" \in DOMAIN result[1].value
    /\ dependency_to_dependency_detail(result[1].value["cxx-build"]).version = CxxVersion
    /\ dependency_to_dependency_detail(Derived(1, "cxx-build")).version # CxxVersion
    /\ Stated(1, "cxx-build", "version") # CxxVersion

(***************************************************************************)
(* Properties of the rules of one Cargo.toml                               *)
(***************************************************************************)
\* Two rules of the unit override the key, to different values.
OverrideDifferently(m1, m2, key) ==
    /\ m1 # m2
    /\ m1.cargo_toml_config # None /\ m2.cargo_toml_config # None
    /\ key \in DOMAIN m1.cargo_toml_config[1] \cap DOMAIN m2.cargo_toml_config[1]
    /\ m1.cargo_toml_config[1][key] # m2.cargo_toml_config[1][key]

\* C23 as stated: when two rules of a unit override the same dependency key to
\* different values, the unit fails with an error that identifies both rules and
\* the key.
C23_ErrorNamesRulesAndKey ==
    geninput # NotRun =>
        \A m1, m2 \in manifests : \A key \in {"serde", "clap"} :
            OverrideDifferently(m1, m2, key) =>
                /\ geninput.status = "Err"
                /\ {m1.name, m2.name} \subseteq geninput.value.names
                /\ key \in geninput.value.keys

\* C23: when two rules of a unit each define a cargo_toml_config, and so when
\* they override the same dependency key to different values, the unit fails
\* before any consolidation with an error that identifies the rules that define
\* a config and no dependency key, whatever their overrides say.
C23_ErrorNamesRules ==
    geninput # NotRun =>
        \A m1, m2 \in WithConfig(manifests) :
            m1 # m2 =>
                /\ geninput.status = "Err"
                /\ geninput.value.ensure
                      = "only one of them might define autocargo.cargo_toml_config"
                /\ geninput.value.names = {m.name : m \in WithConfig(manifests)}
                /\ geninput.value.keys = {}

\* foo_lib sets the version of serde to 1 and foo sets it to 2: the error names
\* foo_lib and foo.
C23_Witness ==
    /\ manifests = {UnitManifest("foo_lib", Some("serde" :> "1")),
                    UnitManifest("foo", Some("serde" :> "2"))}
    /\ OverrideDifferently(UnitManifest("foo_lib", Some("serde" :> "1")),
                           UnitManifest("foo", Some("serde" :> "2")), "serde")
    /\ geninput.status = "Err"
    /\ geninput.value.names = {"foo_lib", "foo"}

LibAndBin ==
    {UnitDep("bin", "deps", None, FbcodeCrate(RuleU)),
     UnitDep("bin", "deps", None, ThirdPartyCrate("clap"))}

\* C24 as stated: the unit made of the binary and the library has exactly the
\* entries of the library, with path ".", and of clap, with the version of the
\* catalog.
C24_LibraryAndClap ==
    (gpc = "done" /\ unit = LibAndBin) =>
        /\ result[1].status = "Ok"
        /\ DOMAIN result[1].value = {RuleU.name, "clap"}
        /\ dependency_to_dependency_detail(result[1].value[RuleU.name]).path = Some(".")
        /\ result[1].value["clap"] = third_party_crates(cfg.cxx)["clap"]

\* C24: the unit made of the binary and the library has exactly one entry, clap
\* with the version of the catalog; the binary's dependency on the library of
\* its own unit produces no entry, and the other sections are empty.
C24_ClapOnly ==
    (gpc = "done" /\ unit = LibAndBin) =>
        /\ result[1] = Ok("clap" :> third_party_crates(cfg.cxx)["clap"])
        /\ ~PointsAt(1, RuleU)
        /\ result[2] = Ok(EmptyMap)
        /\ result[3] = Ok(EmptyMap)

C24_Witness ==
    /\ gpc = "done"
    /\ unit = LibAndBin
    /\ RuleU.name \in local_rules
    /\ DOMAIN result[1].value = {"clap"}
    /\ result[1].value["clap"] = Simple("4.0")

(***************************************************************************)
(* Properties of the loader of the missing rules                           *)
(***************************************************************************)
\* from_rust_buck_rules has just run.
JustQueriedMissing == Len(runs) > 0 /\ runs[Len(runs)].method = "from_rust_buck_rules"

QueryCallsOk ==
    \A i \in 1..Len(calls) :
        (calls[i].phase = 2 /\ calls[i].cmd = "buck query manifests") => calls[i].outcome = "ok"

\* C25: from_rust_buck_rules keeps only manifest rules of the rules it is given:
\* what the query over their TARGETS files found, intersected with the input; an
\* input rule without a manifest rule, such as a non-rust rule, is left out of
\* the loader and makes nothing fail: the loader is created whenever the query
\* command succeeds.
C25_DiscoveredInInput ==
    JustQueriedMissing =>
        /\ pc = "build" <=> QueryCallsOk
        /\ pc = "build" =>
              /\ loaderRules \subseteq {BuckManifestRule(r) : r \in missing}
              /\ loaderRules =
                    BuckQuery({r.path : r \in missing}) \cap {BuckManifestRule(r) : r \in missing}
              /\ \A r \in missing \ RustRules : BuckManifestRule(r) \notin loaderRules

\* The missing rules are b and the non-rust rule n: the query over their TARGETS
\* files also finds a and o, which are not in the input; the loader has b.
C25_Witness ==
    /\ JustQueriedMissing
    /\ pc = "build"
    /\ RuleN \in missing /\ RuleN \notin RustRules
    /\ BuckManifestRule(RuleA) \in BuckQuery({r.path : r \in missing}) \ loaderRules
    /\ missing = {RuleB, RuleN}
    /\ loaderRules = {BuckManifestRule(RuleB)}

(***************************************************************************)
(* Properties of the validation of the catalog                             *)
(***************************************************************************)
ConfigNames == {configs[i].name : i \in 1..Len(configs)}

\* C26: the catalog is not loaded when two projects share a name or when a
\* project declares a dependency that is not the name of a project; in a loaded
\* catalog the names are those of the project files, one project each, and every
\* dependency of every project is the name of a project of the catalog.
C26_ValidatedCatalog ==
    catalog # NotRun =>
        /\ NotUnique(configs) => catalog.status = "Err"
        /\ (\E i \in 1..Len(configs) : ~(configs[i].dependencies \subseteq ConfigNames))
              => catalog.status = "Err"
        /\ catalog.status = "Ok" =>
              /\ DOMAIN catalog.value = ConfigNames
              /\ Cardinality(ConfigNames) = Len(configs)
              /\ \A n \in DOMAIN catalog.value :
                    catalog.value[n].dependencies \subseteq DOMAIN catalog.value

\* proj2 depends on proj1 and on proj3, which has no project file: the catalog
\* is refused for the dependency.
C26_Witness ==
    /\ Len(configs) = 2
    /\ configs[1].name = "proj1" /\ configs[1].dependencies = {}
    /\ configs[2].name = "proj2" /\ configs[2].dependencies = {"proj1", "proj3"}
    /\ catalog = [status |-> "Err", value |-> "Dependency does not exists"]

(***************************************************************************)
(* Termination of the selection                                            *)
(***************************************************************************)
\* A round of a loop takes only projects that are not selected yet.
AddedOnce ==
    /\ (selPc = "reverse" /\ selPc' = "reverse") =>
          /\ to_process' \cap selected_by_path = {}
          /\ selected_by_path' = selected_by_path \cup to_process'
    /\ (selPc = "forward" /\ selPc' = "forward") =>
          /\ to_process' \cap selected_by_name = {}
          /\ selected_by_name' = selected_by_name \cup to_process'

\* C28: both loops of the selection end for every catalog, cycles and
\* self-references among the dependencies included: the selection returns, or
\* fails for an unknown name, and a round never takes a project that is already
\* selected.
C28_SelectionTerminates ==
    /\ <>(selPc \in {"done", "error"})
    /\ [][AddedOnce]_vars

\* proj1 and proj2 depend on each other and proj3 on itself and on proj1: the
\* selection by the path of proj1 and the name proj3 has returned the three.
C28_Witness ==
    /\ selPc = "done"
    /\ projects["proj1"].dependencies = {"proj2"}
    /\ projects["proj2"].dependencies = {"proj1"}
    /\ projects["proj3"].dependencies = {"proj3", "proj1"}
    /\ selPaths = {"a"} /\ selNames = {"proj3"}
    /\ selected = Ok(<<"proj1", "proj2", "proj3">>)

(***************************************************************************)
(* Properties of process_targets over the answers of the oracle            *)
(***************************************************************************)
\* C29: when a requested manifest has a thrift section and its cratemap was
\* loaded, THRIFT_COMPILER_RULE and CODEGEN_INCLUDER_PROC_MACRO_RULE are both in
\* all_raw_manifests when the builders are built, and build never panics,
\* whatever the query for the missing rules answered (the build command listing
\* exactly the rules it was given).
C29_PseudoDependenciesPresent ==
    buck.keys = "requested" =>
        /\ pc # "panicked"
        /\ (pc = "process" /\ DOMAIN cratemaps # {}) =>
              PseudoDependencies \subseteq DOMAIN allRaw

\* The rules load() was asked to build in a phase, as FbcodeBuckRule.
Requested(ph) ==
    UNION {{FbcodeRuleOfManifestRule(m) : m \in runs[i].rules} : i \in RunsOf("load", ph)}

\* The rules the build command of a phase printed an artifact for.
Printed(ph) == {FbcodeRuleOfManifestRule(m) : m \in DOMAIN artifacts[ph]}

\* C30 as stated: the keys of a map load() returned are the rules it was asked
\* to build, and no manifest of the second load is for a rule that has a
\* manifest builder from the first.
C30_KeysAsRequested ==
    /\ \A ph \in {1, 2} :
          loadResult[ph].status = "Ok" => DOMAIN loadResult[ph].value = Requested(ph)
    /\ DOMAIN loadResult[2].value \cap DOMAIN builders = {}

\* C30 amended: the keys of a map load() returned are the rules the build
\* command printed an artifact for, each with the manifest of its own name; when
\* the command prints exactly the rules it was given, the keys are the rules
\* load() was asked to build and no manifest of the second load is for a rule
\* that has a manifest builder from the first.
C30_KeysAsPrinted ==
    /\ \A ph \in {1, 2} :
          loadResult[ph].status = "Ok" =>
             /\ DOMAIN loadResult[ph].value = Printed(ph)
             /\ \A r \in Printed(ph) : loadResult[ph].value[r].name = r.name
             /\ buck.keys = "requested" => DOMAIN loadResult[ph].value = Requested(ph)
    /\ buck.keys = "requested" => DOMAIN loadResult[2].value \cap DOMAIN builders = {}

\* The build command for the missing rule b also printed the requested rule a:
\* the second load returned both, and the merged map has the second manifest of a.
C30_Witness ==
    /\ pc = "done"
    /\ buck.keys = "more"
    /\ RuleA \in DOMAIN builders
    /\ Requested(2) = {RuleB}
    /\ DOMAIN loadResult[2].value = {RuleA, RuleB}
    /\ Printed(2) = {RuleA, RuleB}

====
